---- MODULE Spec2Model ----
(***************************************************************************)
(* Model of the authentic-reader NLP service and Llama service:           *)
(*   nlp-service/onnx_inference.py  ONNXNERModel (BIO decoder, offset       *)
(*                                  resolution, entity aggregation),       *)
(*                                  ONNXZeroShotModel (per-label scores,    *)
(*                                  softmax, selection)                    *)
(*   nlp-service/main.py            analyze_entities (chunked documents,    *)
(*                                  engine selection, fallback pass,       *)
(*                                  grouped entity index),                 *)
(*                                  analyze_zero_shot (engine selection,    *)
(*                                  fallback call); requests one after     *)
(*                                  another and two requests in flight     *)
(*   nlp-service/onnx_inference.py  get_ner_model, get_zero_shot_model      *)
(*                                  called by several threads               *)
(*   llama-service/llama_client.py  LlamaClient (readiness, generation)     *)
(*   llama-service/result_cache.py  ResultCache (size bound, expiry)        *)
(*   llama-service/main.py          startup_event, generate_text           *)
(* Texts are sequences of one-character strings, so that lower(), find(),  *)
(* split() and the "##" prefix are computed and not assumed.  Scores are    *)
(* exact rationals [num, den].                                              *)
(***************************************************************************)
EXTENDS Integers, Sequences, FiniteSets, TLC

VARIABLES
    USE_ONNX,              \* main.py: the USE_ONNX flag
    onnx_ner_model,        \* main.py global: "None", "not ready" or "ready"
    ner_pipeline,          \* main.py global: "None" or "loaded"
    onnx_zero_shot_model,  \* main.py global: "None", "not ready" or "ready"
    zero_shot_classifier,  \* main.py global: "None" or "loaded"
    endpoint,        \* "entities" or "zero-shot"; "direct" and "scorer" for direct calls
    candidate_labels, \* request.candidate_labels of a zero-shot request
    use_onnx,        \* the handler's use_onnx
    engine,          \* the engine the handler is running
    calls,           \* the engine invocations of the request, in order
    status,          \* HTTP status of the answer, 0 while there is none
    aggregator_runs, \* the fragment lists _aggregate_entities was called with
    pc,              \* position of the request in its handler / __call__
    request,         \* the request: its text as [head, fill, tail, more] (see text)
    split,           \* TRUE when len(text) > 5000 selected the chunk loop
    chunk_i,         \* number of chunks the loop has taken so far
    offset,          \* the chunk loop's running offset
    tokens,          \* the model's output for the chunk being decoded
    idx,             \* number of tokens the decoder loop has scanned
    entities,        \* _process_ner_outputs: fragments emitted so far
    current_entity,  \* _process_ner_outputs: <<>> for None, <<e>> for an open fragment
    predictions,     \* what onnx_ner_model(chunk) returned
    results,         \* analyze_entities: the result list
    response,        \* EntityResponse.entities / the ZeroShotResult once answered
    grouped,         \* analyze_entities: the grouped entity index
    multi_label,     \* ONNXZeroShotModel.__call__: the multi_label argument
    logits,          \* ONNXZeroShotModel.__call__: logits of the latest model run
    scores,          \* ONNXZeroShotModel.__call__: the score list
    scorer_results,  \* ONNXZeroShotModel.__call__: its local "results" (the selection)
    model_runs,      \* the runs of the NLI model: text, hypothesis and logits, in order
    reqs,            \* requests in flight at once, each with its own locals
    _ner_model,       \* onnx_inference.py global: 0 for None, else the instance
    _zero_shot_model, \* onnx_inference.py global: 0 for None, else the instance
    instances,        \* the model objects constructed so far, in order
    callers,          \* the threads calling get_ner_model / get_zero_shot_model
    returns,          \* what the getters returned, in order of return
    llama_client,     \* llama-service main.py global: <<>> for None, <<c>> for a LlamaClient
    http,             \* the HTTP requests sent to the Ollama server, in order
    client_calls,     \* the calls of LlamaClient methods and how each ended
    cache,            \* llama-service main.py global: the ResultCache
    now,              \* what time.time() returns, in seconds
    cache_call,       \* the latest call of a ResultCache method and how it ended
    gen_calls         \* the requests /generate has answered, in order

\* the module globals, set once when the service starts
models == <<USE_ONNX, onnx_ner_model, ner_pipeline, onnx_zero_shot_model,
            zero_shot_classifier>>

\* the state of a call of the zero-shot scorer
scorer == <<multi_label, logits, scores, scorer_results, model_runs>>

\* the state of a request to the NLP service
nlp == <<models, endpoint, candidate_labels, use_onnx, engine, calls, status,
         aggregator_runs,
         pc, request, split, chunk_i, offset, tokens, idx, entities,
         current_entity, predictions, results, response, grouped, scorer, reqs>>

\* the singleton getters of onnx_inference.py and their callers
singletons == <<_ner_model, _zero_shot_model, instances, callers, returns>>

\* the Llama client and its traffic
client == <<llama_client, http, client_calls>>

\* the result cache and its clock
store == <<cache, now, cache_call>>

\* what no request handler of the NLP service touches
outside == <<singletons, client, store, gen_calls>>

vars == <<nlp, outside>>

(***************************************************************************)
(* Bounds of the model.                                                    *)
(***************************************************************************)
MaxTokens == 2        \* tokens per decode, every kind of token and label
MaxRunTokens == 3     \* tokens per decode, runs of one entity type
MaxGroupTokens == 4   \* tokens per decode, entities to be grouped
MaxRequestTokens == 3 \* tokens per decode, requests one after another
MaxLabels == 2        \* candidate labels per direct call of the scorer
MaxChunkTokens == 1   \* tokens per chunk decode in whole requests
MaxFragments == 3     \* fragments handed to the aggregator by one decode
MaxBoundaryTokens == 2 \* tokens per chunk decode in two-chunk documents
MaxCallers == 2       \* threads calling the singleton getters
MaxGetterCalls == 3   \* calls of the singleton getters, all threads together
MaxSize == 2          \* max_size of a result cache
MaxTime == 2          \* steps of the clock
MaxRequests == 2      \* requests to /generate
MaxClientCalls == 2   \* calls of LlamaClient methods on one client

(***************************************************************************)
(* Strings.                                                                *)
(***************************************************************************)
Min(S) == CHOOSE x \in S : \A y \in S : x <= y

\* str.lower(), character by character
LowerChar(c) == CASE c = "A" -> "a" [] c = "B" -> "b" [] OTHER -> c

Lower(s) == <<>> \o [i \in 1..Len(s) |-> LowerChar(s[i])]

\* str.startswith(prefix)
StartsWith(s, prefix) ==
    /\ Len(s) >= Len(prefix)
    /\ \A k \in 1..Len(prefix) : s[k] = prefix[k]

\* s[n:]
DropPrefix(s, n) == SubSeq(s, n + 1, Len(s))

\* sub occurs in s at 0-based index p
OccursAt(s, sub, p) ==
    /\ p >= 0
    /\ p + Len(sub) <= Len(s)
    /\ \A k \in 1..Len(sub) : s[p + k] = sub[k]

\* str.find(sub, start): lowest 0-based index >= start where sub occurs, else -1
FindFrom(s, sub, start) ==
    LET hits == {p \in start..(Len(s) - Len(sub)) : OccursAt(s, sub, p)}
    IN  IF hits = {} THEN -1 ELSE Min(hits)

\* str.find(sub)
Find(s, sub) == FindFrom(s, sub, 0)

\* not chunk.strip(): the string is empty or holds only whitespace
IsSpace(c) == c \in {" ", "\n"}

IsBlank(s) == \A k \in 1..Len(s) : IsSpace(s[k])

\* str.split(sep) for a non-empty separator
RECURSIVE SplitFrom(_, _, _)
SplitFrom(s, sep, start) ==
    LET p == FindFrom(s, sep, start)
    IN  IF p = -1 THEN <<SubSeq(s, start + 1, Len(s))>>
        ELSE <<SubSeq(s, start + 1, p)>> \o SplitFrom(s, sep, p + Len(sep))

Split(s, sep) == SplitFrom(s, sep, 0)

(***************************************************************************)
(* Scores: exact rationals.                                                *)
(***************************************************************************)
\* float(token_logits[idx][pred_id])
Score(n) == [num |-> n, den |-> 1]

\* (a + b) / 2
HalfSum(a, b) == [num |-> a.num * b.den + b.num * a.den, den |-> 2 * a.den * b.den]

ScoreEq(a, b) == a.num * b.den = b.num * a.den

(***************************************************************************)
(* The loaded model: tokenizer vocabulary and label mapping.               *)
(***************************************************************************)
\* tokenizer.convert_ids_to_tokens
Vocab == <<
    <<"[", "C", "L", "S", "]">>,
    <<"A">>,
    <<"#", "#", "b">>,
    <<"c">>,
    <<"a">> >>

\* tokenizer.all_special_ids
all_special_ids == {1}

\* model.config.id2label
id2label == <<
    <<"O">>,
    <<"B", "-", "P">>,
    <<"I", "-", "P">>,
    <<"B", "-", "L">>,
    <<"I", "-", "L">>,
    <<"B", "P">> >>

(***************************************************************************)
(* ONNXNERModel._get_word_offsets                                          *)
(***************************************************************************)
\* variant: the search compares the strings as they are, case included
GetWordOffsets_CaseSensitive(txt, token_text, token_idx) ==
    LET start == Find(txt, token_text)
        end == IF start # -1 THEN start + Len(token_text) ELSE -1
    IN  <<start, end>>

GetWordOffsets(txt, token_text, token_idx) ==
    LET start == Find(Lower(txt), Lower(token_text))
        end == IF start # -1 THEN start + Len(token_text) ELSE -1
    IN  <<start, end>>

(***************************************************************************)
(* ONNXNERModel._process_ner_outputs: the token loop.                      *)
(* A token is [token_id, pred_id, mask, score]; score stands for           *)
(* token_logits[idx][pred_id], the logit at the arg-max index.             *)
(***************************************************************************)
\* variant: only padding is skipped
IsSkipped_IgnoresSpecial(tok) == tok.mask = 0

\* variant: only special tokens are skipped
IsSkipped_IgnoresMask(tok) == tok.token_id \in all_special_ids

\* the two "continue" tests at the head of the loop
IsSkipped(tok) == tok.mask = 0 \/ tok.token_id \in all_special_ids

\* convert_ids_to_tokens followed by the removal of the ## prefix
TokenText(token_id) ==
    LET token_text == Vocab[token_id]
        is_subword == StartsWith(token_text, <<"#", "#">>)
    IN  IF is_subword THEN DropPrefix(token_text, 2) ELSE token_text

\* the state of the loop: the emitted fragments and the open one
Loop(ents, cur) == [entities |-> ents, current_entity |-> cur]

\* variant: the open fragment is overwritten without being emitted
BeginEntity_DropsOpen(ents, cur, txt, tok, token_idx) ==
    LET pred_label == id2label[tok.pred_id]
        token_text == TokenText(tok.token_id)
        entity_type == DropPrefix(pred_label, 2)
        word_offsets == GetWordOffsets(txt, token_text, token_idx)
    IN  Loop(ents,
             << [entity_group |-> entity_type,
                 word |-> token_text,
                 score |-> Score(tok.score),
                 start |-> word_offsets[1],
                 end |-> word_offsets[2]] >>)

\* branch pred_label.startswith('B-')
BeginEntity(ents, cur, txt, tok, token_idx) ==
    LET pred_label == id2label[tok.pred_id]
        token_text == TokenText(tok.token_id)
        entity_type == DropPrefix(pred_label, 2)
        finished == IF cur # <<>> THEN Append(ents, cur[1]) ELSE ents
        word_offsets == GetWordOffsets(txt, token_text, token_idx)
    IN  Loop(finished,
             << [entity_group |-> entity_type,
                 word |-> token_text,
                 score |-> Score(tok.score),
                 start |-> word_offsets[1],
                 end |-> word_offsets[2]] >>)

\* variant: an I- tag that continues nothing is promoted to a B- tag
ContinueEntity_PromotesOrphan(ents, cur, txt, tok, token_idx) ==
    LET pred_label == id2label[tok.pred_id]
        token_text == TokenText(tok.token_id)
        entity_type == DropPrefix(pred_label, 2)
        word_offsets == GetWordOffsets(txt, token_text, token_idx)
    IN  IF cur # <<>> /\ cur[1].entity_group = entity_type
        THEN Loop(ents,
                  << [cur[1] EXCEPT
                        !.word = cur[1].word \o token_text,
                        !.end = word_offsets[2],
                        !.score = HalfSum(cur[1].score, Score(tok.score))] >>)
        ELSE BeginEntity(ents, cur, txt, tok, token_idx)

\* variant: an I- tag of another type than the open fragment's begins a
\* fragment of its own type
ContinueEntity_OpensOnMismatch(ents, cur, txt, tok, token_idx) ==
    LET pred_label == id2label[tok.pred_id]
        token_text == TokenText(tok.token_id)
        entity_type == DropPrefix(pred_label, 2)
    IN  IF cur # <<>> /\ cur[1].entity_group = entity_type
        THEN LET word_offsets == GetWordOffsets(txt, token_text, token_idx)
             IN  Loop(ents,
                      << [cur[1] EXCEPT
                            !.word = cur[1].word \o token_text,
                            !.end = word_offsets[2],
                            !.score = HalfSum(cur[1].score, Score(tok.score))] >>)
        ELSE IF cur # <<>>
        THEN BeginEntity(ents, cur, txt, tok, token_idx)
        ELSE Loop(ents, cur)

\* branch pred_label.startswith('I-')
ContinueEntity(ents, cur, txt, tok, token_idx) ==
    LET pred_label == id2label[tok.pred_id]
        token_text == TokenText(tok.token_id)
        entity_type == DropPrefix(pred_label, 2)
    IN  IF cur # <<>> /\ cur[1].entity_group = entity_type
        THEN LET word_offsets == GetWordOffsets(txt, token_text, token_idx)
             IN  Loop(ents,
                      << [cur[1] EXCEPT
                            !.word = cur[1].word \o token_text,
                            !.end = word_offsets[2],
                            !.score = HalfSum(cur[1].score, Score(tok.score))] >>)
        ELSE Loop(ents, cur)

\* variant: the open fragment is dropped without being emitted
OtherTag_DropsOpen(ents, cur) == Loop(ents, <<>>)

\* branch elif current_entity, and the fall-through when nothing is open
OtherTag(ents, cur) ==
    IF cur # <<>> THEN Loop(Append(ents, cur[1]), <<>>) ELSE Loop(ents, cur)

\* one iteration of the loop
ProcessToken(ents, cur, txt, tok, token_idx) ==
    IF IsSkipped(tok) THEN Loop(ents, cur)
    ELSE LET pred_label == id2label[tok.pred_id]
         IN  IF StartsWith(pred_label, <<"B", "-">>)
                THEN BeginEntity(ents, cur, txt, tok, token_idx)
             ELSE IF StartsWith(pred_label, <<"I", "-">>)
                THEN ContinueEntity(ents, cur, txt, tok, token_idx)
             ELSE OtherTag(ents, cur)

\* variant: the fragment open at the end of the sequence is forgotten
FinalEntities_Forgets(ents, cur) == ents

\* "Add final entity if exists"
FinalEntities(ents, cur) == IF cur # <<>> THEN Append(ents, cur[1]) ELSE ents

(***************************************************************************)
(* ONNXNERModel._aggregate_entities                                        *)
(***************************************************************************)
\* variant: a merge keeps the accumulator's score
MergeEntity_KeepsScore(current, entity) ==
    [current EXCEPT
        !.word = current.word \o <<" ">> \o entity.word,
        !.end = entity.end]

MergeEntity(current, entity) ==
    [current EXCEPT
        !.word = current.word \o <<" ">> \o entity.word,
        !.end = entity.end,
        !.score = HalfSum(current.score, entity.score)]

RECURSIVE AggregateFrom(_, _, _, _)
\* variant: the accumulator left at the end of the scan is not added
AggregateFrom_ForgetsLast(ents, i, aggregated, current) ==
    IF i > Len(ents) THEN aggregated
    ELSE LET entity == ents[i]
         IN  IF entity.entity_group = current.entity_group
                /\ entity.start - current.end <= 1
             THEN AggregateFrom(ents, i + 1, aggregated, MergeEntity(current, entity))
             ELSE AggregateFrom(ents, i + 1, Append(aggregated, current), entity)

\* for entity in entities[1:], then "Add the last entity"
AggregateFrom(ents, i, aggregated, current) ==
    IF i > Len(ents) THEN Append(aggregated, current)
    ELSE LET entity == ents[i]
         IN  IF entity.entity_group = current.entity_group
                /\ entity.start - current.end <= 1
             THEN AggregateFrom(ents, i + 1, aggregated, MergeEntity(current, entity))
             ELSE AggregateFrom(ents, i + 1, Append(aggregated, current), entity)

AggregateEntities(ents) ==
    IF ents = <<>> THEN <<>> ELSE AggregateFrom(ents, 2, <<>>, ents[1])

\* variant: the fragments are returned as they are
FinishOutputs_NoAggregation(ents, cur, aggregation_strategy) ==
    FinalEntities(ents, cur)

\* the tail of _process_ner_outputs
FinishOutputs(ents, cur, aggregation_strategy) ==
    LET all == FinalEntities(ents, cur)
    IN  IF aggregation_strategy = "simple" THEN AggregateEntities(all) ELSE all

(***************************************************************************)
(* analyze_entities, ONNX engine.                                          *)
(***************************************************************************)
ChunkThreshold == 5000

Separator == <<"\n", "\n">>

\* a run of n characters that are in no token and are no whitespace
Filler(n) == [i \in 1..n |-> "."]

\* n[k] filler characters followed by the characters s[k], for k = 1..j
RECURSIVE ExpandMore(_, _)
ExpandMore(more, j) ==
    IF j = 0 THEN <<>>
    ELSE ExpandMore(more, j - 1) \o Filler(more[j].fill) \o more[j].tail

\* the characters of a request: head, then fill filler characters, then
\* tail, then the further runs of filler and characters
Expand(r) == r.head \o Filler(r.fill) \o r.tail \o ExpandMore(r.more, Len(r.more))

Short(chars) == [head |-> chars, fill |-> 0, tail |-> <<>>, more |-> <<>>]

Long(before, n, after) ==
    [head |-> before, fill |-> n, tail |-> after, more |-> <<>>]

\* the texts of the decoder specifications
DecoderTexts == { Short(<<"a", " ", "B", " ", "a">>) }

OffsetTexts ==
    { Short(<<"a", " ", "B", " ", "a">>),
      Short(<<"b", "A">>),
      Short(<<"B", "c", "A", "b">>),
      Short(<<"a", "a", "b", "b">>),
      Short(<<"c">>) }

\* texts in which two token texts lie one space apart ("a", "b"), touch
\* ("b", "A"), lie two characters apart ("A", "c"), or are missing ("c")
AggregateTexts ==
    { Short(<<"a", " ", "B", " ", "a">>),
      Short(<<"b", "A">>),
      Short(<<"A", ".", ".", "c">>) }

\* three chunks of 4000 characters, the token text "A" at index 10 of the
\* second one
ThreeChunks ==
    [head |-> <<>>, fill |-> 4000, tail |-> <<"\n", "\n">>,
     more |-> << [fill |-> 10, tail |-> <<"A">>],
                 [fill |-> 3989, tail |-> <<"\n", "\n">>],
                 [fill |-> 4000, tail |-> <<>>] >>]

\* the documents of whole requests: two texts of at most 5000 characters,
\* two of exactly 5000, and three longer ones: two chunks, a whitespace
\* chunk in the middle, an empty chunk
Documents ==
    { Short(<<"a", " ", "B">>),
      Short(<<"a", "\n", "\n", "B">>),
      Long(<<"a", "\n", "\n", "B">>, ChunkThreshold - 4, <<>>),
      Long(<<"a", "\n", "\n", "B">>, ChunkThreshold, <<>>),
      Long(<<"a", "\n", "\n", " ", "\n", "\n">>, ChunkThreshold, <<"a">>),
      Long(<<>>, ChunkThreshold, <<"\n", "\n", "\n", "\n", "B", "a">>),
      Long(<<"c", "\n", "\n", "A">>, ChunkThreshold - 4, <<>>) }

\* split documents of three chunks: all of 4000 characters, a whitespace
\* chunk in the middle, an empty chunk in the middle
SplitDocuments ==
    { ThreeChunks,
      Long(<<"a", "\n", "\n", " ", "\n", "\n">>, ChunkThreshold, <<"a">>),
      Long(<<>>, ChunkThreshold, <<"\n", "\n", "\n", "\n", "B", "a">>) }

\* documents of two chunks: the first chunk holds two adjacent token texts
\* or one token text, the second begins with a token text
BoundaryDocuments ==
    { Long(<<"A", "c", "\n", "\n", "A">>, ChunkThreshold, <<>>),
      Long(<<"a", "\n", "\n", "B">>, ChunkThreshold, <<>>) }

\* the texts of requests to the service: empty, whitespace only, a short
\* text, a document of two chunks, a document with a whitespace chunk
ServiceTexts ==
    { Short(<<>>),
      Short(<<" ">>),
      Short(<<"a", " ", "B">>),
      Long(<<"a", "\n", "\n", "B">>, ChunkThreshold, <<>>),
      Long(<<"a", "\n", "\n", " ", "\n", "\n">>, ChunkThreshold, <<"a">>) }

Requests ==
    ServiceTexts \cup DecoderTexts \cup OffsetTexts \cup AggregateTexts \cup Documents
        \cup SplitDocuments \cup BoundaryDocuments

\* the text and its split depend on the request alone: one evaluation each
TextOf == [r \in Requests |-> Expand(r)]

ChunksOf == [r \in Requests |-> Split(TextOf[r], Separator)]

\* request.text
text == TextOf[request]

\* chunks = text.split("\n\n")
chunks == ChunksOf[request]

\* the text handed to onnx_ner_model for the decode in progress
CurrentText == IF split THEN chunks[chunk_i] ELSE text

\* entity["start"] += offset; entity["end"] += offset
Shifted(ents, off) ==
    [k \in 1..Len(ents) |->
        [ents[k] EXCEPT !.start = ents[k].start + off, !.end = ents[k].end + off]]

\* Entity(entity=item["word"], type=item["entity_group"], ...)
ToEntity(item) ==
    [entity |-> item.word, type |-> item.entity_group, score |-> item.score,
     start |-> item.start, end |-> item.end]

\* the invocation the handler is about to make: the engine, the chunk
\* passed to it (0 for the whole text), the tokens the ONNX model produced
\* for it, whether it raised and what it returned
Invocation ==
    [engine |-> engine, chunk |-> IF split THEN chunk_i ELSE 0,
     tokens |-> <<>>, raised |-> FALSE, out |-> <<>>]

\* raise HTTPException(status_code=code): the request is answered
Answer(code) ==
    /\ status' = code
    /\ pc' = "done"

\* variant: a text of exactly 5000 characters is split as well
BeginPass_SplitsAtThreshold ==
    /\ results' = <<>>
    /\ offset' = 0
    /\ chunk_i' = 0
    /\ IF Len(text) >= ChunkThreshold
       THEN /\ split' = TRUE
            /\ pc' = "loop"
       ELSE /\ split' = FALSE
            /\ pc' = "call"

\* text = request.text; results = []; if len(text) > 5000: chunks =
\* text.split("\n\n"); offset = 0; for chunk in chunks
BeginPass ==
    /\ results' = <<>>
    /\ offset' = 0
    /\ chunk_i' = 0
    /\ IF Len(text) > ChunkThreshold
       THEN /\ split' = TRUE
            /\ pc' = "loop"
       ELSE /\ split' = FALSE
            /\ pc' = "call"

\* analyze_entities up to the first engine call: engine selection, the 503
\* and 400 answers, the start of the pass over the text
StartRequest ==
    /\ pc = "start"
    /\ endpoint = "entities"
    /\ LET selected == USE_ONNX /\ onnx_ner_model = "ready"
       IN  /\ use_onnx' = selected
           /\ IF \/ ~selected /\ ner_pipeline = "None"
                 \/ selected /\ onnx_ner_model = "None"
              THEN /\ Answer(503)
                   /\ UNCHANGED <<engine, split, chunk_i, offset, results>>
              ELSE IF IsBlank(text)
              THEN /\ Answer(400)
                   /\ UNCHANGED <<engine, split, chunk_i, offset, results>>
              ELSE /\ engine' = IF selected THEN "ONNX" ELSE "HuggingFace"
                   /\ BeginPass
                   /\ UNCHANGED status
    /\ UNCHANGED <<models, outside, scorer, grouped, reqs, aggregator_runs, endpoint, candidate_labels, calls, request, tokens,
                   idx, entities, current_entity, predictions, response>>

\* variant: a blank chunk is passed over without advancing the offset
SkipBlankChunk_KeepsOffset ==
    /\ pc = "loop"
    /\ chunk_i < Len(chunks)
    /\ IsBlank(chunks[chunk_i + 1])
    /\ chunk_i' = chunk_i + 1
    /\ UNCHANGED <<models, outside, scorer, grouped, reqs, aggregator_runs, endpoint, candidate_labels, use_onnx, engine,
                   calls, status, pc, request, split, offset, tokens, idx,
                   entities, current_entity, predictions, results, response>>

\* if not chunk.strip(): offset += len(chunk) + 2; continue
SkipBlankChunk ==
    /\ pc = "loop"
    /\ chunk_i < Len(chunks)
    /\ IsBlank(chunks[chunk_i + 1])
    /\ chunk_i' = chunk_i + 1
    /\ offset' = offset + Len(chunks[chunk_i + 1]) + 2
    /\ UNCHANGED <<models, outside, scorer, grouped, reqs, aggregator_runs, endpoint, candidate_labels, use_onnx, engine,
                   calls, status, pc, request, split, tokens, idx, entities, current_entity,
                   predictions, results, response>>

\* for chunk in chunks, a chunk that is not blank: pass it to the model
TakeChunk ==
    /\ pc = "loop"
    /\ chunk_i < Len(chunks)
    /\ ~IsBlank(chunks[chunk_i + 1])
    /\ chunk_i' = chunk_i + 1
    /\ pc' = "call"
    /\ UNCHANGED <<models, outside, scorer, grouped, reqs, aggregator_runs, endpoint, candidate_labels, use_onnx, engine,
                   calls, status, request, split, offset, tokens, idx, entities,
                   current_entity, predictions, results, response>>

\* an exception leaves the call: inside analyze_entities it reaches the
\* except clause, a direct caller of the model gets it
Raise == pc' = IF endpoint = "entities" THEN "except" ELSE "raised"

\* a caller outside the handlers invokes the ONNX NER model object itself:
\* onnx_ner_model(text), no availability gate before it
CallDirectly ==
    /\ pc = "start"
    /\ endpoint = "direct"
    /\ engine' = "ONNX"
    /\ split' = FALSE
    /\ pc' = "call"
    /\ UNCHANGED <<models, outside, scorer, grouped, reqs, aggregator_runs, endpoint, candidate_labels, use_onnx,
                   calls, status, request, chunk_i, offset, tokens, idx, entities,
                   current_entity, predictions, results, response>>

\* variant: a model that is not ready answers with no entities
CallNotReady_ReturnsNothing ==
    /\ pc = "call"
    /\ engine = "ONNX"
    /\ onnx_ner_model # "ready"
    /\ calls' = Append(calls, Invocation)
    /\ predictions' = <<>>
    /\ pc' = "returned"
    /\ UNCHANGED <<models, outside, scorer, grouped, reqs, aggregator_runs, endpoint, candidate_labels, use_onnx, engine,
                   status, request, split, chunk_i, offset, tokens, idx,
                   entities, current_entity, results, response>>

\* ONNXNERModel.__call__: if not self.ready: raise RuntimeError("ONNX NER
\* model is not loaded")
CallNotReady ==
    /\ pc = "call"
    /\ engine = "ONNX"
    /\ onnx_ner_model # "ready"
    /\ calls' = Append(calls, [Invocation EXCEPT !.raised = TRUE])
    /\ Raise
    /\ UNCHANGED <<models, outside, scorer, grouped, reqs, aggregator_runs, endpoint, candidate_labels, use_onnx, engine,
                   status, request, split, chunk_i, offset, tokens, idx,
                   entities, current_entity, predictions, results, response>>

\* onnx_ner_model(chunk) on a ready model: the tokenizer and the model
\* produce the tokens, _process_ner_outputs starts with no fragment
CallModel(TokenSeqs) ==
    /\ pc = "call"
    /\ engine = "ONNX"
    /\ onnx_ner_model = "ready"
    /\ \E toks \in TokenSeqs : tokens' = toks
    /\ calls' = Append(calls, [Invocation EXCEPT !.tokens = tokens'])
    /\ idx' = 0
    /\ entities' = <<>>
    /\ current_entity' = <<>>
    /\ pc' = "scan"
    /\ UNCHANGED <<models, outside, scorer, grouped, reqs, aggregator_runs, endpoint, candidate_labels, use_onnx, engine,
                   status, request, split, chunk_i, offset, predictions,
                   results, response>>

\* what the transformers "ner" pipeline (aggregation_strategy="simple") may
\* return for a text: nothing, or one entity on the first character
PipelineOutputs(txt) ==
    { <<>>,
      << [entity_group |-> <<"P">>, word |-> <<txt[1]>>, score |-> Score(1),
          start |-> 0, end |-> 1] >> }

\* ner_pipeline(chunk) / ner_pipeline(text) returns
CallPipeline ==
    /\ pc = "call"
    /\ engine # "ONNX"
    /\ predictions' \in PipelineOutputs(CurrentText)
    /\ calls' = Append(calls, [Invocation EXCEPT !.out = predictions'])
    /\ pc' = "returned"
    /\ UNCHANGED <<models, outside, scorer, grouped, reqs, aggregator_runs, endpoint, candidate_labels, use_onnx, engine,
                   status, request, split, chunk_i, offset, tokens, idx,
                   entities, current_entity, results, response>>

\* the engine call raises: control passes to "except Exception as e"
EngineRaises ==
    /\ pc = "call"
    /\ calls' = Append(calls, [Invocation EXCEPT !.raised = TRUE])
    /\ Raise
    /\ UNCHANGED <<models, outside, scorer, grouped, reqs, aggregator_runs, endpoint, candidate_labels, use_onnx, engine,
                   status, request, split, chunk_i, offset, tokens, idx,
                   entities, current_entity, predictions, results, response>>

\* variant: the fallback pass goes on with the results collected so far
HandleError_KeepsResults ==
    /\ pc = "except"
    /\ IF engine # "HuggingFace (fallback)" /\ use_onnx /\ ner_pipeline # "None"
       THEN /\ engine' = "HuggingFace (fallback)"
            /\ offset' = 0
            /\ chunk_i' = 0
            /\ IF Len(text) > ChunkThreshold
               THEN split' = TRUE /\ pc' = "loop"
               ELSE split' = FALSE /\ pc' = "call"
            /\ UNCHANGED <<status, results>>
       ELSE /\ Answer(500)
            /\ UNCHANGED <<engine, split, chunk_i, offset, results>>
    /\ UNCHANGED <<models, outside, scorer, grouped, reqs, aggregator_runs, endpoint, candidate_labels,
                   use_onnx, calls, request, tokens, idx, entities,
                   current_entity, predictions, response>>

\* the except clause of analyze_entities: start the pass again on the
\* Hugging Face pipeline when ONNX was in use and the pipeline is loaded;
\* otherwise, and when the fallback pass raised, answer 500
HandleError ==
    /\ pc = "except"
    /\ IF engine # "HuggingFace (fallback)" /\ use_onnx /\ ner_pipeline # "None"
       THEN /\ engine' = "HuggingFace (fallback)"
            /\ BeginPass
            /\ UNCHANGED status
       ELSE /\ Answer(500)
            /\ UNCHANGED <<engine, split, chunk_i, offset, results>>
    /\ UNCHANGED <<models, outside, scorer, grouped, reqs, aggregator_runs, endpoint, candidate_labels, use_onnx, calls,
                   request, tokens, idx, entities, current_entity,
                   predictions, response>>

\* one iteration of the token loop
ScanToken ==
    /\ pc = "scan"
    /\ idx < Len(tokens)
    /\ LET r == ProcessToken(entities, current_entity, CurrentText,
                             tokens[idx + 1], idx)
       IN  /\ entities' = r.entities
           /\ current_entity' = r.current_entity
    /\ idx' = idx + 1
    /\ UNCHANGED <<models, outside, scorer, grouped, reqs, aggregator_runs, endpoint, candidate_labels, use_onnx, engine,
                   calls, status, pc, request, split, chunk_i, offset, tokens, predictions,
                   results, response>>

\* the loop is over: the open fragment is appended to the fragment list,
\* the list is aggregated and returned
FinishDecode ==
    /\ pc = "scan"
    /\ idx = Len(tokens)
    /\ entities' = FinalEntities(entities, current_entity)
    /\ predictions' = FinishOutputs(entities, current_entity, "simple")
    /\ aggregator_runs' =
          Append(aggregator_runs, FinalEntities(entities, current_entity))
    /\ calls' = [calls EXCEPT ![Len(calls)].out = predictions']
    /\ pc' = "returned"
    /\ UNCHANGED <<models, outside, scorer, grouped, reqs, endpoint, candidate_labels, use_onnx, engine,
                   status, request, split, chunk_i, offset, tokens, idx,
                   current_entity, results, response>>

\* variant: the offset advances by the chunk's length only
CollectChunk_ForgetsSeparator ==
    /\ pc = "returned"
    /\ split
    /\ results' = results \o Shifted(predictions, offset)
    /\ offset' = offset + Len(chunks[chunk_i])
    /\ pc' = "loop"
    /\ UNCHANGED <<models, outside, scorer, grouped, reqs, aggregator_runs, endpoint, candidate_labels, use_onnx, engine,
                   calls, status, request, split, chunk_i, tokens, idx,
                   entities, current_entity, predictions, response>>

\* variant: the result list is aggregated again whenever a chunk is added
CollectChunk_AggregatesResults ==
    /\ pc = "returned"
    /\ split
    /\ results' = AggregateEntities(results \o Shifted(predictions, offset))
    /\ offset' = offset + Len(chunks[chunk_i]) + 2
    /\ pc' = "loop"
    /\ UNCHANGED <<models, outside, scorer, grouped, reqs, aggregator_runs, endpoint, candidate_labels,
                   use_onnx, engine, calls, status, request, split, chunk_i,
                   tokens, idx, entities, current_entity, predictions,
                   response>>

\* adjust the chunk's entities by offset, results.extend, advance offset
CollectChunk ==
    /\ pc = "returned"
    /\ split
    /\ results' = results \o Shifted(predictions, offset)
    /\ offset' = offset + Len(chunks[chunk_i]) + 2
    /\ pc' = "loop"
    /\ UNCHANGED <<models, outside, scorer, grouped, reqs, aggregator_runs, endpoint, candidate_labels, use_onnx, engine,
                   calls, status, request, split, chunk_i, tokens, idx, entities,
                   current_entity, predictions, response>>

\* results = onnx_ner_model(text)
CollectWhole ==
    /\ pc = "returned"
    /\ endpoint = "entities"
    /\ ~split
    /\ results' = predictions
    /\ pc' = "convert"
    /\ UNCHANGED <<models, outside, scorer, grouped, reqs, aggregator_runs, endpoint, candidate_labels, use_onnx, engine,
                   calls, status, request, split, chunk_i, offset, tokens, idx, entities,
                   current_entity, predictions, response>>

\* the chunk loop is exhausted
EndLoop ==
    /\ pc = "loop"
    /\ chunk_i = Len(chunks)
    /\ pc' = "convert"
    /\ UNCHANGED <<models, outside, scorer, grouped, reqs, aggregator_runs, endpoint, candidate_labels, use_onnx, engine,
                   calls, status, request, split, chunk_i, offset, tokens, idx, entities,
                   current_entity, predictions, results, response>>

\* a Python dict is held as its keys in insertion order and its values
EmptyDict == [keys |-> <<>>, val |-> <<>>]

\* variant: only the key inserted last is found
Has_LastKey(d, k) == d.keys # <<>> /\ d.keys[Len(d.keys)] = k

\* key in d
Has(d, k) == \E i \in 1..Len(d.keys) : d.keys[i] = k

\* d[key] = value
Put(d, k, v) ==
    [keys |-> IF Has(d, k) THEN d.keys ELSE Append(d.keys, k),
     val |-> (k :> v) @@ d.val]

\* variant: a repeated entity replaces the mentions of its group
GroupEntity_ForgetsMentions(g, entity) ==
    LET entity_type == entity.type
        entity_text == Lower(entity.entity)
        g1 == IF ~Has(g.grouped, entity_type)
              THEN [grouped |-> Put(g.grouped, entity_type, <<>>),
                    entity_texts |-> Put(g.entity_texts, entity_type, EmptyDict)]
              ELSE g
        groups == g1.grouped.val[entity_type]
        seen == g1.entity_texts.val[entity_type]
    IN  IF Has(seen, entity_text)
        THEN LET i == seen.val[entity_text]
             IN  [g1 EXCEPT !.grouped = Put(g1.grouped, entity_type,
                     [groups EXCEPT ![i + 1].count = @ + 1,
                                    ![i + 1].mentions = <<entity>>])]
        ELSE LET i == Len(groups)
                 grouped_entity == [entity |-> entity.entity, type |-> entity_type,
                                    count |-> 1, mentions |-> <<entity>>]
             IN  [grouped |-> Put(g1.grouped, entity_type, Append(groups, grouped_entity)),
                  entity_texts |-> Put(g1.entity_texts, entity_type,
                                       Put(seen, entity_text, i))]

\* one turn of "for entity in entities" (main.py:345-371): g holds grouped
\* and entity_texts; the code's idx, counted from 0, is i
GroupEntity(g, entity) ==
    LET entity_type == entity.type
        entity_text == Lower(entity.entity)
        g1 == IF ~Has(g.grouped, entity_type)
              THEN [grouped |-> Put(g.grouped, entity_type, <<>>),
                    entity_texts |-> Put(g.entity_texts, entity_type, EmptyDict)]
              ELSE g
        groups == g1.grouped.val[entity_type]
        seen == g1.entity_texts.val[entity_type]
    IN  IF Has(seen, entity_text)
        THEN LET i == seen.val[entity_text]
             IN  [g1 EXCEPT !.grouped = Put(g1.grouped, entity_type,
                     [groups EXCEPT ![i + 1].count = @ + 1,
                                    ![i + 1].mentions = Append(@, entity)])]
        ELSE LET i == Len(groups)
                 grouped_entity == [entity |-> entity.entity, type |-> entity_type,
                                    count |-> 1, mentions |-> <<entity>>]
             IN  [grouped |-> Put(g1.grouped, entity_type, Append(groups, grouped_entity)),
                  entity_texts |-> Put(g1.entity_texts, entity_type,
                                       Put(seen, entity_text, i))]

RECURSIVE GroupFrom(_, _)
\* grouped = {}; entity_texts = {}; for entity in entities: ...
GroupFrom(g, ents) ==
    IF ents = <<>> THEN g ELSE GroupFrom(GroupEntity(g, Head(ents)), Tail(ents))

GroupEntities(ents) ==
    GroupFrom([grouped |-> EmptyDict, entity_texts |-> EmptyDict], ents).grouped

\* variant: the fallback path keys its groups by the text as written
FallbackGroupEntity_CaseSensitive(g, entity) ==
    LET entity_type == entity.type
        entity_text == entity.entity
        g1 == IF ~Has(g.grouped, entity_type)
              THEN [grouped |-> Put(g.grouped, entity_type, <<>>),
                    entity_texts |-> Put(g.entity_texts, entity_type, EmptyDict)]
              ELSE g
        groups == g1.grouped.val[entity_type]
        seen == g1.entity_texts.val[entity_type]
    IN  IF Has(seen, entity_text)
        THEN LET i == seen.val[entity_text]
             IN  [g1 EXCEPT !.grouped = Put(g1.grouped, entity_type,
                     [groups EXCEPT ![i + 1].count = @ + 1,
                                    ![i + 1].mentions = Append(@, entity)])]
        ELSE LET i == Len(groups)
                 grouped_entity == [entity |-> entity.entity, type |-> entity_type,
                                    count |-> 1, mentions |-> <<entity>>]
             IN  [grouped |-> Put(g1.grouped, entity_type, Append(groups, grouped_entity)),
                  entity_texts |-> Put(g1.entity_texts, entity_type,
                                       Put(seen, entity_text, i))]

\* the same loop in the fallback path (main.py:432-454)
FallbackGroupEntity(g, entity) ==
    LET entity_type == entity.type
        entity_text == Lower(entity.entity)
        g1 == IF ~Has(g.grouped, entity_type)
              THEN [grouped |-> Put(g.grouped, entity_type, <<>>),
                    entity_texts |-> Put(g.entity_texts, entity_type, EmptyDict)]
              ELSE g
        groups == g1.grouped.val[entity_type]
        seen == g1.entity_texts.val[entity_type]
    IN  IF Has(seen, entity_text)
        THEN LET i == seen.val[entity_text]
             IN  [g1 EXCEPT !.grouped = Put(g1.grouped, entity_type,
                     [groups EXCEPT ![i + 1].count = @ + 1,
                                    ![i + 1].mentions = Append(@, entity)])]
        ELSE LET i == Len(groups)
                 grouped_entity == [entity |-> entity.entity, type |-> entity_type,
                                    count |-> 1, mentions |-> <<entity>>]
             IN  [grouped |-> Put(g1.grouped, entity_type, Append(groups, grouped_entity)),
                  entity_texts |-> Put(g1.entity_texts, entity_type,
                                       Put(seen, entity_text, i))]

RECURSIVE FallbackGroupFrom(_, _)
FallbackGroupFrom(g, ents) ==
    IF ents = <<>> THEN g
    ELSE FallbackGroupFrom(FallbackGroupEntity(g, Head(ents)), Tail(ents))

FallbackGroupEntities(ents) ==
    FallbackGroupFrom([grouped |-> EmptyDict, entity_texts |-> EmptyDict], ents).grouped

\* convert the result list to Entity objects, group them and answer with
\* EntityResponse(entities=entities, grouped_entities=grouped, ...)
BuildResponse ==
    /\ pc = "convert"
    /\ response' = [k \in 1..Len(results) |-> ToEntity(results[k])]
    /\ grouped' = IF engine = "HuggingFace (fallback)"
                  THEN FallbackGroupEntities(response')
                  ELSE GroupEntities(response')
    /\ Answer(200)
    /\ UNCHANGED <<models, outside, scorer, reqs, aggregator_runs, endpoint, candidate_labels, use_onnx, engine,
                   calls, request, split, chunk_i, offset, tokens, idx,
                   entities, current_entity, predictions, results>>

\* the service takes its next request: a new call of analyze_entities. The
\* call assigns its locals before it reads them; what the finished call left
\* in them stays where it was
NextRequest(Texts) ==
    /\ pc = "done"
    /\ endpoint = "entities"
    /\ request' \in Texts
    /\ pc' = "start"
    /\ status' = 0
    /\ calls' = <<>>
    /\ aggregator_runs' = <<>>
    /\ use_onnx' = FALSE
    /\ engine' = "none"
    /\ UNCHANGED <<models, outside, scorer, grouped, reqs, endpoint, candidate_labels, split,
                   chunk_i, offset, tokens, idx, entities, current_entity,
                   predictions, results, response>>

(***************************************************************************)
(* analyze_zero_shot.                                                      *)
(***************************************************************************)
\* what a zero-shot engine may return for a text and its labels: the text,
\* the labels and one score for each label
ZeroShotOutputs(sequence, labels) ==
    { [sequence |-> sequence, labels |-> labels, scores |-> sc] :
        sc \in [1..Len(labels) -> {Score(1), Score(3)}] }

\* variant: the label list is not validated
StartZeroShot_AcceptsNoLabels ==
    /\ pc = "start"
    /\ endpoint = "zero-shot"
    /\ LET selected == USE_ONNX /\ onnx_zero_shot_model = "ready"
       IN  /\ use_onnx' = selected
           /\ IF \/ ~selected /\ zero_shot_classifier = "None"
                 \/ selected /\ onnx_zero_shot_model = "None"
              THEN /\ Answer(503)
                   /\ UNCHANGED engine
              ELSE IF IsBlank(text)
              THEN /\ Answer(400)
                   /\ UNCHANGED engine
              ELSE /\ engine' = IF selected THEN "ONNX" ELSE "HuggingFace"
                   /\ pc' = "classify"
                   /\ UNCHANGED status
    /\ UNCHANGED <<models, outside, scorer, grouped, reqs, aggregator_runs, endpoint, candidate_labels, calls, request, split,
                   chunk_i, offset, tokens, idx, entities, current_entity,
                   predictions, results, response>>

\* analyze_zero_shot up to the engine call: engine selection, the 503 and
\* 400 answers
StartZeroShot ==
    /\ pc = "start"
    /\ endpoint = "zero-shot"
    /\ LET selected == USE_ONNX /\ onnx_zero_shot_model = "ready"
       IN  /\ use_onnx' = selected
           /\ IF \/ ~selected /\ zero_shot_classifier = "None"
                 \/ selected /\ onnx_zero_shot_model = "None"
              THEN /\ Answer(503)
                   /\ UNCHANGED engine
              ELSE IF candidate_labels = <<>> \/ IsBlank(text)
              THEN /\ Answer(400)
                   /\ UNCHANGED engine
              ELSE /\ engine' = IF selected THEN "ONNX" ELSE "HuggingFace"
                   /\ pc' = "classify"
                   /\ UNCHANGED status
    /\ UNCHANGED <<models, outside, scorer, grouped, reqs, aggregator_runs, endpoint, candidate_labels, calls, request, split,
                   chunk_i, offset, tokens, idx, entities, current_entity,
                   predictions, results, response>>

\* zero_shot_classifier(text, candidate_labels=..., multi_label=False)
\* classifies the text and the handler returns ZeroShotResult(**results)
CallZeroShot ==
    /\ pc = "classify"
    /\ engine # "ONNX"
    /\ results' \in ZeroShotOutputs(request, candidate_labels)
    /\ calls' = Append(calls, [Invocation EXCEPT !.out = results'])
    /\ response' = results'
    /\ Answer(200)
    /\ UNCHANGED <<models, outside, scorer, grouped, reqs, aggregator_runs, endpoint, candidate_labels, use_onnx, engine,
                   request, split, chunk_i, offset, tokens, idx, entities,
                   current_entity, predictions>>

\* an exception leaves the engine call: inside analyze_zero_shot it reaches
\* the except clause, a direct caller of the scorer gets it
ScorerRaise == pc' = IF endpoint = "zero-shot" THEN "classify except" ELSE "raised"

\* the engine call raises: control passes to "except Exception as e"
ZeroShotRaises ==
    /\ pc = "classify"
    /\ calls' = Append(calls, [Invocation EXCEPT !.raised = TRUE])
    /\ ScorerRaise
    /\ UNCHANGED <<models, outside, scorer, grouped, reqs, aggregator_runs, endpoint, candidate_labels, use_onnx, engine,
                   status, request, split, chunk_i, offset, tokens, idx,
                   entities, current_entity, predictions, results, response>>

\* variant: every error is answered with 500, the classifier is not tried
HandleZeroShotError_NoFallback ==
    /\ pc = "classify except"
    /\ Answer(500)
    /\ UNCHANGED <<models, outside, scorer, grouped, reqs, aggregator_runs, endpoint, candidate_labels,
                   use_onnx, engine, calls, request, split, chunk_i, offset,
                   tokens, idx, entities, current_entity, predictions,
                   results, response>>

\* the except clause of analyze_zero_shot: call zero_shot_classifier when ONNX
\* was in use and the classifier is loaded; otherwise, and when the fallback
\* call raised, answer 500
HandleZeroShotError ==
    /\ pc = "classify except"
    /\ IF engine # "HuggingFace (fallback)" /\ use_onnx
          /\ zero_shot_classifier # "None"
       THEN /\ engine' = "HuggingFace (fallback)"
            /\ pc' = "classify"
            /\ UNCHANGED status
       ELSE /\ Answer(500)
            /\ UNCHANGED engine
    /\ UNCHANGED <<models, outside, scorer, grouped, reqs, aggregator_runs, endpoint, candidate_labels, use_onnx, calls,
                   request, split, chunk_i, offset, tokens, idx, entities,
                   current_entity, predictions, results, response>>

(***************************************************************************)
(* ONNXZeroShotModel.__call__: the zero-shot scorer.                       *)
(***************************************************************************)
\* np.max
Max(S) == CHOOSE m \in S : \A x \in S : x <= m

\* np.exp(x) of an integer x <= 0, in thousandths
Exp(x) == <<1000, 368, 135, 50, 18>>[1 - x]

RECURSIVE Total(_)
\* exp_x.sum(axis=1)
Total(x) == IF x = <<>> THEN 0 ELSE x[1] + Total(Tail(x))

\* _softmax: exp_x = np.exp(x - np.max(x)); exp_x / exp_x.sum()
Softmax(x) ==
    LET m == Max({x[i] : i \in 1..Len(x)})
        exp_x == [i \in 1..Len(x) |-> Exp(x[i] - m)]
    IN  [i \in 1..Len(x) |-> [num |-> exp_x[i], den |-> Total(exp_x)]]

\* variant: the probability of class index 0 is taken
LabelScore_ClassZero(lg) ==
    IF Len(lg) = 2 THEN Softmax(lg)[1] ELSE Score(Max({lg[i] : i \in 1..Len(lg)}))

\* the score of one label: probs[0, 1] of the softmax when the model has two
\* classes, float(logits.max()) otherwise
LabelScore(lg) ==
    IF Len(lg) = 2 THEN Softmax(lg)[2] ELSE Score(Max({lg[i] : i \in 1..Len(lg)}))

\* a > b on scores
Greater(a, b) == a.num * b.den > b.num * a.den

\* threshold = 0.5
threshold == [num |-> 1, den |-> 2]

RECURSIVE LabelsAbove(_, _, _)
\* [label for i, label in enumerate(candidate_labels) if scores[i] > threshold]
LabelsAbove(labels, sc, i) ==
    IF i > Len(labels) THEN <<>>
    ELSE (IF Greater(sc[i], threshold) THEN <<labels[i]>> ELSE <<>>)
            \o LabelsAbove(labels, sc, i + 1)

\* np.argmax(scores): the first index of the maximum (counted from 1 here)
ArgMax(sc) ==
    CHOOSE i \in 1..Len(sc) :
        /\ \A j \in 1..Len(sc) : ~Greater(sc[j], sc[i])
        /\ \A j \in 1..(i - 1) : Greater(sc[i], sc[j])

\* hypothesis = f"This text is about {label}."
Hypothesis(label) == <<"This text is about ", label, ".">>

\* a caller outside the handlers invokes the scorer object itself:
\* onnx_zero_shot_model(text, candidate_labels, multi_label)
CallScorerDirectly ==
    /\ pc = "start"
    /\ endpoint = "scorer"
    /\ engine' = "ONNX"
    /\ pc' = "classify"
    /\ UNCHANGED <<models, outside, scorer, grouped, reqs, aggregator_runs, endpoint,
                   candidate_labels, use_onnx, calls, status, request, split,
                   chunk_i, offset, tokens, idx, entities, current_entity,
                   predictions, results, response>>

\* the call enters __call__: if not self.ready: raise RuntimeError(...);
\* results = []; scores = []
EnterScorer ==
    /\ pc = "classify"
    /\ engine = "ONNX"
    /\ IF onnx_zero_shot_model # "ready"
       THEN /\ calls' = Append(calls, [Invocation EXCEPT !.raised = TRUE])
            /\ ScorerRaise
            /\ UNCHANGED <<scores, scorer_results>>
       ELSE /\ calls' = Append(calls, Invocation)
            /\ scores' = <<>>
            /\ scorer_results' = <<>>
            /\ pc' = "labels"
    /\ UNCHANGED <<models, outside, multi_label, logits, model_runs, grouped, reqs,
                   aggregator_runs, endpoint, candidate_labels, use_onnx, engine,
                   status, request, split, chunk_i, offset, tokens, idx, entities,
                   current_entity, predictions, results, response>>

\* variant: the new score is put in front of the list
ScoreLabel_Prepends(LogitSeqs) ==
    /\ pc = "labels"
    /\ Len(scores) < Len(candidate_labels)
    /\ \E lg \in LogitSeqs : logits' = lg
    /\ LET label == candidate_labels[Len(scores) + 1]
       IN  model_runs' = Append(model_runs,
                                [text |-> request, hypothesis |-> Hypothesis(label),
                                 logits |-> logits'])
    /\ scores' = <<LabelScore(logits')>> \o scores
    /\ UNCHANGED <<models, outside, multi_label, scorer_results, grouped, reqs,
                   aggregator_runs, endpoint, candidate_labels, use_onnx, engine,
                   calls, status, pc, request, split, chunk_i, offset, tokens, idx,
                   entities, current_entity, predictions, results, response>>

\* one turn of "for label in candidate_labels": the model is run on the text
\* and the label's hypothesis, and the label's score is appended
ScoreLabel(LogitSeqs) ==
    /\ pc = "labels"
    /\ Len(scores) < Len(candidate_labels)
    /\ \E lg \in LogitSeqs : logits' = lg
    /\ LET label == candidate_labels[Len(scores) + 1]
       IN  model_runs' = Append(model_runs,
                                [text |-> request, hypothesis |-> Hypothesis(label),
                                 logits |-> logits'])
    /\ scores' = Append(scores, LabelScore(logits'))
    /\ UNCHANGED <<models, outside, multi_label, scorer_results, grouped, reqs,
                   aggregator_runs, endpoint, candidate_labels, use_onnx, engine,
                   calls, status, pc, request, split, chunk_i, offset, tokens, idx,
                   entities, current_entity, predictions, results, response>>

\* after the loop: the labels above the threshold when multi_label, else
\* the label at np.argmax(scores), which raises ValueError on an empty list
SelectLabels ==
    /\ pc = "labels"
    /\ Len(scores) = Len(candidate_labels)
    /\ IF multi_label
       THEN /\ scorer_results' = LabelsAbove(candidate_labels, scores, 1)
            /\ pc' = "respond"
            /\ UNCHANGED calls
       ELSE IF scores = <<>>
       THEN /\ calls' = [calls EXCEPT ![Len(calls)].raised = TRUE]
            /\ ScorerRaise
            /\ UNCHANGED scorer_results
       ELSE /\ scorer_results' = <<candidate_labels[ArgMax(scores)]>>
            /\ pc' = "respond"
            /\ UNCHANGED calls
    /\ UNCHANGED <<models, outside, multi_label, logits, scores, model_runs, grouped, reqs,
                   aggregator_runs, endpoint, candidate_labels, use_onnx, engine,
                   status, request, split, chunk_i, offset, tokens, idx, entities,
                   current_entity, predictions, results, response>>

\* response = {"sequence": text, "labels": candidate_labels, "scores":
\* scores}; return response. In analyze_zero_shot the handler then returns
\* ZeroShotResult(**results)
ReturnResponse ==
    /\ pc = "respond"
    /\ results' = [sequence |-> request, labels |-> candidate_labels,
                   scores |-> scores]
    /\ calls' = [calls EXCEPT ![Len(calls)].out = results']
    /\ IF endpoint = "zero-shot"
       THEN response' = results' /\ Answer(200)
       ELSE pc' = "returned" /\ UNCHANGED <<response, status>>
    /\ UNCHANGED <<models, outside, scorer, grouped, reqs, aggregator_runs, endpoint,
                   candidate_labels, use_onnx, engine, request, split, chunk_i,
                   offset, tokens, idx, entities, current_entity, predictions>>

(***************************************************************************)
(* Two requests in flight.                                                 *)
(***************************************************************************)
\* the locals of the call that is running: everything but the module globals
Frame ==
    [endpoint |-> endpoint, candidate_labels |-> candidate_labels,
     use_onnx |-> use_onnx, engine |-> engine, calls |-> calls,
     status |-> status, aggregator_runs |-> aggregator_runs, pc |-> pc,
     request |-> request, split |-> split, chunk_i |-> chunk_i,
     offset |-> offset, tokens |-> tokens, idx |-> idx,
     entities |-> entities, current_entity |-> current_entity,
     predictions |-> predictions, results |-> results, response |-> response,
     grouped |-> grouped, multi_label |-> multi_label, logits |-> logits,
     scores |-> scores, scorer_results |-> scorer_results,
     model_runs |-> model_runs]

\* variant: the decoder's fragment list and open fragment are kept on the
\* model object, one pair for all calls
Switch_SharesFragments ==
    /\ reqs # <<>>
    /\ reqs' = <<Frame>>
    /\ endpoint' = reqs[1].endpoint
    /\ candidate_labels' = reqs[1].candidate_labels
    /\ use_onnx' = reqs[1].use_onnx
    /\ engine' = reqs[1].engine
    /\ calls' = reqs[1].calls
    /\ status' = reqs[1].status
    /\ aggregator_runs' = reqs[1].aggregator_runs
    /\ pc' = reqs[1].pc
    /\ request' = reqs[1].request
    /\ split' = reqs[1].split
    /\ chunk_i' = reqs[1].chunk_i
    /\ offset' = reqs[1].offset
    /\ tokens' = reqs[1].tokens
    /\ idx' = reqs[1].idx
    /\ predictions' = reqs[1].predictions
    /\ results' = reqs[1].results
    /\ response' = reqs[1].response
    /\ grouped' = reqs[1].grouped
    /\ multi_label' = reqs[1].multi_label
    /\ logits' = reqs[1].logits
    /\ scores' = reqs[1].scores
    /\ scorer_results' = reqs[1].scorer_results
    /\ model_runs' = reqs[1].model_runs
    /\ UNCHANGED <<models, outside, entities, current_entity>>

\* the running call is suspended between two of its steps and the other
\* call goes on: each call has its own locals, the module globals are shared
Switch ==
    /\ reqs # <<>>
    /\ reqs' = <<Frame>>
    /\ endpoint' = reqs[1].endpoint
    /\ candidate_labels' = reqs[1].candidate_labels
    /\ use_onnx' = reqs[1].use_onnx
    /\ engine' = reqs[1].engine
    /\ calls' = reqs[1].calls
    /\ status' = reqs[1].status
    /\ aggregator_runs' = reqs[1].aggregator_runs
    /\ pc' = reqs[1].pc
    /\ request' = reqs[1].request
    /\ split' = reqs[1].split
    /\ chunk_i' = reqs[1].chunk_i
    /\ offset' = reqs[1].offset
    /\ tokens' = reqs[1].tokens
    /\ idx' = reqs[1].idx
    /\ entities' = reqs[1].entities
    /\ current_entity' = reqs[1].current_entity
    /\ predictions' = reqs[1].predictions
    /\ results' = reqs[1].results
    /\ response' = reqs[1].response
    /\ grouped' = reqs[1].grouped
    /\ multi_label' = reqs[1].multi_label
    /\ logits' = reqs[1].logits
    /\ scores' = reqs[1].scores
    /\ scorer_results' = reqs[1].scorer_results
    /\ model_runs' = reqs[1].model_runs
    /\ UNCHANGED <<models, outside>>

(***************************************************************************)
(* get_ner_model / get_zero_shot_model: the singleton getters, called      *)
(* from threads.  A thread may be suspended between any two steps.         *)
(***************************************************************************)
Callers == 1..MaxCallers

\* the module global a getter reads and writes
Global(getter) ==
    IF getter = "get_ner_model" THEN _ner_model ELSE _zero_shot_model

\* the class a getter constructs
ClassOf(getter) ==
    IF getter = "get_ner_model" THEN "ONNXNERModel" ELSE "ONNXZeroShotModel"

\* a thread that is in neither getter
Outside == [pc |-> "out", getter |-> "none", model_path |-> "None", made |-> 0]

\* a thread calls a getter with some model_path
CallGetter(t, ModelPaths) ==
    /\ callers[t].pc = "out"
    /\ Len(returns) + Cardinality({u \in Callers : callers[u].pc # "out"})
          < MaxGetterCalls
    /\ \E getter \in {"get_ner_model", "get_zero_shot_model"} :
       \E model_path \in ModelPaths :
          callers' = [callers EXCEPT ![t] =
                         [pc |-> "check", getter |-> getter,
                          model_path |-> model_path, made |-> 0]]
    /\ UNCHANGED <<nlp, client, store, gen_calls, _ner_model, _zero_shot_model, instances, returns>>

\* if _ner_model is None:
CheckInstance(t) ==
    /\ callers[t].pc = "check"
    /\ callers' = [callers EXCEPT ![t].pc =
                      IF Global(callers[t].getter) = 0 THEN "construct"
                      ELSE "return"]
    /\ UNCHANGED <<nlp, client, store, gen_calls, _ner_model, _zero_shot_model, instances, returns>>

\* ONNXNERModel(model_path): the constructor loads the model and returns
\* the new object, ready or not
Construct(t) ==
    /\ callers[t].pc = "construct"
    /\ instances' = Append(instances, [class |-> ClassOf(callers[t].getter),
                                       model_path |-> callers[t].model_path])
    /\ callers' = [callers EXCEPT ![t].pc = "assign",
                                  ![t].made = Len(instances')]
    /\ UNCHANGED <<nlp, client, store, gen_calls, _ner_model, _zero_shot_model, returns>>

\* _ner_model = <the new object>
Assign(t) ==
    /\ callers[t].pc = "assign"
    /\ IF callers[t].getter = "get_ner_model"
       THEN _ner_model' = callers[t].made /\ UNCHANGED _zero_shot_model
       ELSE _zero_shot_model' = callers[t].made /\ UNCHANGED _ner_model
    /\ callers' = [callers EXCEPT ![t].pc = "return"]
    /\ UNCHANGED <<nlp, client, store, gen_calls, instances, returns>>

\* return _ner_model
ReturnInstance(t) ==
    /\ callers[t].pc = "return"
    /\ returns' = Append(returns, [caller |-> t, getter |-> callers[t].getter,
                                   model_path |-> callers[t].model_path,
                                   instance |-> Global(callers[t].getter)])
    /\ callers' = [callers EXCEPT ![t] = Outside]
    /\ UNCHANGED <<nlp, client, store, gen_calls, _ner_model, _zero_shot_model, instances>>

\* the process has imported onnx_inference and called no getter
Imported ==
    /\ _ner_model = 0
    /\ _zero_shot_model = 0
    /\ instances = <<>>
    /\ callers = [t \in Callers |-> Outside]
    /\ returns = <<>>

(***************************************************************************)
(* LlamaClient (llama-service).  A string that is taken apart or put       *)
(* together is a sequence of pieces; an answer of the Ollama server is a   *)
(* response with a status and a JSON body, or an exception raised by the   *)
(* request: requests.RequestException or any other Exception.              *)
(***************************************************************************)
\* str.rstrip("/")
RStrip(s) ==
    LET keep == {n \in 0..Len(s) : n = 0 \/ s[n] # "/"}
    IN  SubSeq(s, 1, CHOOSE n \in keep : \A m \in keep : m <= n)

\* LlamaClient(model_name, host)
NewClient(model_name, host) ==
    [model_name |-> model_name,
     host |-> RStrip(host),
     api_base |-> RStrip(host) \o <<"/api">>,
     _ready |-> FALSE,
     _model_info |-> <<>>]

\* the JSON object {}
EmptyObject == [empty |-> TRUE]

\* dict.get(key, default) on a JSON body
Get(body, key, default) == IF key \in DOMAIN body THEN body[key] ELSE default

\* a request that was sent, with the answer it got
Sent(method, url, json, answer) ==
    [method |-> method, url |-> url, json |-> json, answer |-> answer]

\* how a method call ends: what it raised or returned, the client it leaves
\* and the requests it sent
Ends(raised, returned, c, sent) ==
    [raised |-> raised, returned |-> returned, client |-> c, sent |-> sent]

\* the exception a request raised, as the except clause of the caller sees it
Caught(answer, translated) ==
    IF answer.kind = "RequestException" THEN translated ELSE "Exception"

\* _get_model_info, given the answer to POST /api/show: the info, {} when
\* the request fails, or the exception the except clause does not catch
GetModelInfo(c, show) ==
    LET req == Sent("POST", c.api_base \o <<"/show">>, [name |-> c.model_name],
                    show)
    IN  IF show.kind = "Exception"
        THEN [raised |-> "Exception", value |-> <<>>, sent |-> <<req>>]
        ELSE IF show.kind = "RequestException" \/ show.status # 200
        THEN [raised |-> "none", value |-> <<EmptyObject>>, sent |-> <<req>>]
        ELSE [raised |-> "none", value |-> <<show.body>>, sent |-> <<req>>]

\* the tail shared by test_connection and _pull_model:
\* self._model_info = self._get_model_info(); self._ready = True; return True
BecomeReady(c, show, sent) ==
    LET info == GetModelInfo(c, show)
    IN  IF info.raised # "none"
        THEN Ends(info.raised, "nothing", c, sent \o info.sent)
        ELSE Ends("none", "True",
                  [c EXCEPT !._model_info = info.value, !._ready = TRUE],
                  sent \o info.sent)

\* variant: a pull that is refused still marks the client ready
PullModel_IgnoresStatus(c, pull, show, sent) ==
    LET req == Sent("POST", c.api_base \o <<"/pull">>, [name |-> c.model_name],
                    pull)
    IN  IF pull.kind # "response"
        THEN Ends(Caught(pull, "ValueError"), "nothing", c, sent \o <<req>>)
        ELSE BecomeReady(c, show, sent \o <<req>>)

\* _pull_model
PullModel(c, pull, show, sent) ==
    LET req == Sent("POST", c.api_base \o <<"/pull">>, [name |-> c.model_name],
                    pull)
    IN  IF pull.kind # "response"
        THEN Ends(Caught(pull, "ValueError"), "nothing", c, sent \o <<req>>)
        ELSE IF pull.status # 200
        THEN Ends("ValueError", "nothing", c, sent \o <<req>>)
        ELSE BecomeReady(c, show, sent \o <<req>>)

\* the names in the model list: [model["name"] for model in ...get("models", [])]
AvailableModels(tags) ==
    LET listed == Get(tags.body, "models", <<>>)
    IN  {listed[i].name : i \in DOMAIN listed}

\* test_connection, given the answers the server would give to each request
TestConnection(c, root, tags, pull, show) ==
    LET get1 == Sent("GET", c.host \o <<"/">>, "none", root)
        get2 == Sent("GET", c.api_base \o <<"/tags">>, "none", tags)
    IN  IF root.kind # "response"
        THEN Ends(Caught(root, "ConnectionError"), "nothing", c, <<get1>>)
        ELSE IF root.status # 200
        THEN Ends("ConnectionError", "nothing", c, <<get1>>)
        ELSE IF tags.kind # "response"
        THEN Ends(Caught(tags, "ConnectionError"), "nothing", c, <<get1, get2>>)
        ELSE IF tags.status # 200
        THEN Ends("ConnectionError", "nothing", c, <<get1, get2>>)
        ELSE IF c.model_name \notin AvailableModels(tags)
        THEN PullModel(c, pull, show, <<get1, get2>>)
        ELSE BecomeReady(c, show, <<get1, get2>>)

\* the payload of generate
Payload(c, prompt, system_prompt, max_tokens, temperature) ==
    [model |-> c.model_name,
     prompt |-> prompt,
     options |-> [num_predict |-> max_tokens, temperature |-> temperature],
     system |-> IF system_prompt \in {"None", ""} THEN "absent" ELSE system_prompt,
     stream |-> "absent"]

\* variant: the status of the answer is not looked at
SendGenerate_IgnoresStatus(c, prompt, system_prompt, max_tokens, temperature, answer) ==
    LET req == Sent("POST", c.api_base \o <<"/generate">>,
                    Payload(c, prompt, system_prompt, max_tokens, temperature),
                    answer)
    IN  IF answer.kind # "response"
        THEN Ends(Caught(answer, "RuntimeError"), "nothing", c, <<req>>)
        ELSE Ends("none", Get(answer.body, "response", ""), c, <<req>>)

\* generate, its try block: the request and what becomes of the answer
SendGenerate(c, prompt, system_prompt, max_tokens, temperature, answer) ==
    LET req == Sent("POST", c.api_base \o <<"/generate">>,
                    Payload(c, prompt, system_prompt, max_tokens, temperature),
                    answer)
    IN  IF answer.kind # "response"
        THEN Ends(Caught(answer, "RuntimeError"), "nothing", c, <<req>>)
        ELSE IF answer.status # 200
        THEN Ends("RuntimeError", "nothing", c, <<req>>)
        ELSE Ends("none", Get(answer.body, "response", ""), c, <<req>>)

\* variant: generate does not test self._ready
Generate_NoGate(c, prompt, system_prompt, max_tokens, temperature, answer) ==
    SendGenerate(c, prompt, system_prompt, max_tokens, temperature, answer)

\* generate
Generate(c, prompt, system_prompt, max_tokens, temperature, answer) ==
    IF ~c._ready
    THEN Ends("RuntimeError", "nothing", c, <<>>)
    ELSE SendGenerate(c, prompt, system_prompt, max_tokens, temperature, answer)

\* the chunks the generator yields: the "response" of each line of the
\* streamed body that is not empty, parses as JSON and holds one
Yielded(lines) ==
    LET F[n \in 0..Len(lines)] ==
            IF n = 0 THEN <<>>
            ELSE IF "response" \in DOMAIN lines[n]
                 THEN Append(F[n - 1], lines[n].response)
                 ELSE F[n - 1]
    IN  F[Len(lines)]

\* generate_streaming up to the end of the first iteration of its generator:
\* the first chunk it yields, or StopIteration when the stream holds none
GenerateStreaming(c, prompt, system_prompt, max_tokens, temperature, answer) ==
    LET req == Sent("POST", c.api_base \o <<"/generate">>,
                    [Payload(c, prompt, system_prompt, max_tokens, temperature)
                        EXCEPT !.stream = "True"],
                    answer)
    IN  IF ~c._ready
        THEN Ends("RuntimeError", "nothing", c, <<>>)
        ELSE IF answer.kind # "response"
        THEN Ends(Caught(answer, "RuntimeError"), "nothing", c, <<req>>)
        ELSE IF answer.status # 200
        THEN Ends("RuntimeError", "nothing", c, <<req>>)
        ELSE IF Yielded(answer.body.lines) = <<>>
        THEN Ends("StopIteration", "nothing", c, <<req>>)
        ELSE Ends("none", Yielded(answer.body.lines)[1], c, <<req>>)

\* a method call is over: the client it leaves, its requests and its end
Finish(op, args, end) ==
    /\ Len(client_calls) < MaxClientCalls
    /\ llama_client' = <<end.client>>
    /\ http' = http \o end.sent
    /\ client_calls' = Append(client_calls,
                              [op |-> op, args |-> args, before |-> llama_client[1],
                               sent |-> end.sent,
                               raised |-> end.raised, returned |-> end.returned])
    /\ UNCHANGED <<nlp, singletons, store, gen_calls>>

\* client.test_connection()
CallTestConnection(Roots, Tags, Pulls, Shows) ==
    /\ llama_client # <<>>
    /\ \E root \in Roots, tags \in Tags, pull \in Pulls, show \in Shows :
          Finish("test_connection", <<>>,
                 TestConnection(llama_client[1], root, tags, pull, show))

\* client.generate(prompt, system_prompt, max_tokens, temperature)
CallGenerate(Prompts, SystemPrompts, Answers) ==
    /\ llama_client # <<>>
    /\ \E prompt \in Prompts, system_prompt \in SystemPrompts,
          answer \in Answers :
          Finish("generate", <<prompt, system_prompt>>,
                 Generate(llama_client[1], prompt, system_prompt, 1000, "0.7",
                          answer))

\* next(client.generate_streaming(prompt, system_prompt))
CallGenerateStreaming(Prompts, SystemPrompts, Answers) ==
    /\ llama_client # <<>>
    /\ \E prompt \in Prompts, system_prompt \in SystemPrompts,
          answer \in Answers :
          Finish("generate_streaming", <<prompt, system_prompt>>,
                 GenerateStreaming(llama_client[1], prompt, system_prompt, 1000,
                                   "0.7", answer))

\* client.is_ready()
CallIsReady ==
    /\ llama_client # <<>>
    /\ Finish("is_ready", <<>>,
              Ends("none", IF llama_client[1]._ready THEN "True" ELSE "False",
                   llama_client[1], <<>>))

\* client.get_model_params(): reads self._model_info
CallGetModelParams ==
    /\ llama_client # <<>>
    /\ Finish("get_model_params", <<>>,
              Ends("none",
                   IF llama_client[1]._model_info \in {<<>>, <<EmptyObject>>}
                   THEN "{}" ELSE "params",
                   llama_client[1], <<>>))

\* the llama service has not started: there is no client
NoClient ==
    /\ llama_client = <<>>
    /\ http = <<>>
    /\ client_calls = <<>>

(***************************************************************************)
(* ResultCache (llama-service).                                            *)
(***************************************************************************)
\* ResultCache(max_size, ttl)
NewCache(max_size, ttl) == [max_size |-> max_size, ttl |-> ttl, cache |-> EmptyDict]

\* del d[key]
Del(d, k) ==
    LET left == DOMAIN d.val \ {k}
    IN  [keys |-> SelectSeq(d.keys, LAMBDA x : x # k),
         val |-> IF left = {} THEN <<>> ELSE [x \in left |-> d.val[x]]]

\* the names a key_dict can hold, as sort_keys orders them
SortedNames == <<"max_tokens", "prompt", "temperature">>

\* json.dumps(key_dict, sort_keys=True): the fields in the order of their
\* names
JsonDumps(key_dict) ==
    LET F[n \in 0..Len(SortedNames)] ==
            IF n = 0 THEN <<>>
            ELSE IF SortedNames[n] \in DOMAIN key_dict
                 THEN Append(F[n - 1], <<SortedNames[n], key_dict[SortedNames[n]]>>)
                 ELSE F[n - 1]
    IN  F[Len(SortedNames)]

\* hashlib.sha256(...).hexdigest(): different strings, different digests
Sha256(str) == <<"sha256", str>>

\* _generate_key(prompt, **kwargs)
GenerateKey(prompt, kwargs) ==
    Sha256(JsonDumps([prompt |-> prompt] @@ kwargs))

\* min(self.cache.keys(), key=lambda k: self.cache[k]["timestamp"]): the
\* first key, in the order of the dict, with the smallest timestamp
OldestKey(d) ==
    LET least == Min({d.val[k].timestamp : k \in DOMAIN d.val})
        first == Min({i \in 1..Len(d.keys) : d.val[d.keys[i]].timestamp = least})
    IN  d.keys[first]

\* a ResultCache method call is over
Called(op, prompt, kwargs, result, returned) ==
    cache_call' = [op |-> op, prompt |-> prompt, kwargs |-> kwargs,
                   result |-> result, at |-> now, before |-> cache.cache,
                   returned |-> returned]

\* variant: an expired entry is still returned
CacheGet_IgnoresTtl(prompt, kwargs) ==
    LET key == GenerateKey(prompt, kwargs)
    IN  /\ IF Has(cache.cache, key)
           THEN Called("get", prompt, kwargs, "none",
                       <<cache.cache.val[key].result>>)
           ELSE Called("get", prompt, kwargs, "none", <<>>)
        /\ UNCHANGED <<nlp, singletons, client, gen_calls, cache, now>>

\* the body of get, for a key and a time: the cache it leaves and what it
\* returns, <<>> standing for None
GetItem(c, key, time) ==
    IF Has(c.cache, key)
    THEN LET item == c.cache.val[key]
         IN  IF time - item.timestamp > c.ttl
             THEN [cache |-> [c EXCEPT !.cache = Del(c.cache, key)],
                   returned |-> <<>>]
             ELSE [cache |-> c, returned |-> <<item.result>>]
    ELSE [cache |-> c, returned |-> <<>>]

\* cache.get(prompt, **kwargs)
CacheGet(prompt, kwargs) ==
    LET got == GetItem(cache, GenerateKey(prompt, kwargs), now)
    IN  /\ cache' = got.cache
        /\ Called("get", prompt, kwargs, "none", got.returned)
        /\ UNCHANGED <<nlp, singletons, client, gen_calls, now>>

\* variant: a full cache is not made room in
CacheSet_NoEviction(prompt, result, kwargs) ==
    LET key == GenerateKey(prompt, kwargs)
    IN  /\ cache' = [cache EXCEPT !.cache =
                        Put(cache.cache, key, [result |-> result, timestamp |-> now])]
        /\ Called("set", prompt, kwargs, result, <<>>)
        /\ UNCHANGED <<nlp, singletons, client, gen_calls, now>>

\* the body of set, for a key and a time: the cache it leaves
SetItem(c, key, result, time) ==
    LET room == IF Len(c.cache.keys) >= c.max_size
                THEN Del(c.cache, OldestKey(c.cache))
                ELSE c.cache
    IN  [c EXCEPT !.cache = Put(room, key, [result |-> result, timestamp |-> time])]

\* cache.set(prompt, result, **kwargs)
CacheSet(prompt, result, kwargs) ==
    /\ cache' = SetItem(cache, GenerateKey(prompt, kwargs), result, now)
    /\ Called("set", prompt, kwargs, result, <<>>)
    /\ UNCHANGED <<nlp, singletons, client, gen_calls, now>>

\* cache.clear()
CacheClear ==
    /\ cache' = [cache EXCEPT !.cache = EmptyDict]
    /\ Called("clear", "none", <<>>, "none", <<>>)
    /\ UNCHANGED <<nlp, singletons, client, gen_calls, now>>

\* cache.size()
CacheSize ==
    /\ Called("size", "none", <<>>, "none", <<Len(cache.cache.keys)>>)
    /\ UNCHANGED <<nlp, singletons, client, gen_calls, cache, now>>

\* the keys of the expired entries, in the order of the dict
ExpiredKeys(d, current_time, ttl) ==
    SelectSeq(d.keys, LAMBDA k : current_time - d.val[k].timestamp > ttl)

\* del self.cache[key] for each key of a list
DelAll(d, ks) ==
    LET F[n \in 0..Len(ks)] == IF n = 0 THEN d ELSE Del(F[n - 1], ks[n])
    IN  F[Len(ks)]

\* cache.prune_expired()
CachePrune ==
    LET expired_keys == ExpiredKeys(cache.cache, now, cache.ttl)
    IN  /\ cache' = [cache EXCEPT !.cache = DelAll(cache.cache, expired_keys)]
        /\ Called("prune_expired", "none", <<>>, "none", <<Len(expired_keys)>>)
        /\ UNCHANGED <<nlp, singletons, client, gen_calls, now>>

\* the clock advances by a step
Tick(step) ==
    /\ now < MaxTime * step
    /\ now' = now + step
    /\ UNCHANGED <<nlp, singletons, client, gen_calls, cache, cache_call>>

\* no method of the cache was called yet
NotCalled ==
    cache_call = [op |-> "none", prompt |-> "none", kwargs |-> <<>>,
                  result |-> "none", at |-> 0, before |-> EmptyDict,
                  returned |-> <<>>]

\* cache = ResultCache() at the import of llama-service main.py
DefaultCache ==
    /\ cache = NewCache(1000, 3600)
    /\ now = 0
    /\ NotCalled

(***************************************************************************)
(* llama-service main.py: startup and the /generate endpoint.              *)
(***************************************************************************)
MODEL_NAME == "llama3:8b"

\* str(n) of a non-negative integer, as its characters
RECURSIVE Str(_)
Str(n) ==
    LET digit == <<"0", "1", "2", "3", "4", "5", "6", "7", "8", "9">>[(n % 10) + 1]
    IN  IF n < 10 THEN <<digit>> ELSE Append(Str(n \div 10), digit)

\* str(x) of a float given in tenths: 7 is 0.7, 10 is 1.0
StrFloat(tenths) == Str(tenths \div 10) \o <<".">> \o Str(tenths % 10)

\* f"gen:{request.prompt}:{request.max_tokens}:{request.temperature}"
CacheKeyOf(req) ==
    <<"g", "e", "n", ":">> \o req.prompt \o <<":">> \o Str(req.max_tokens)
       \o <<":">> \o StrFloat(req.temperature)

\* LlamaResponse(result=..., metadata=..., processing_time=...)
LlamaResponse(req, result, processing_time) ==
    [result |-> result,
     metadata |-> [model |-> MODEL_NAME, prompt_length |-> Len(req.prompt),
                   max_tokens |-> req.max_tokens,
                   temperature |-> req.temperature],
     processing_time |-> processing_time]

\* startup_event: the client is constructed and its connection tested; a
\* failure is logged and the service starts without a ready client
Startup(Roots, Tags, Pulls, Shows) ==
    /\ llama_client = <<>>
    /\ \E root \in Roots, tags \in Tags, pull \in Pulls, show \in Shows :
          LET end == TestConnection(NewClient(MODEL_NAME, <<"http://localhost:11434">>),
                                    root, tags, pull, show)
          IN  /\ llama_client' = <<end.client>>
              /\ http' = http \o end.sent
    /\ UNCHANGED <<nlp, singletons, store, client_calls, gen_calls>>

\* the request is answered: what it was, the status and the response, the
\* cached response if one was found, and the requests the client sent
Responded(req, code, resp, cached, sent) ==
    gen_calls' = Append(gen_calls,
                        [request |-> req, status |-> code, response |-> resp,
                         cached |-> cached, sent |-> sent])

\* generate_text: POST /generate
GenerateText(Reqs, Answers) ==
    /\ Len(gen_calls) < MaxRequests
    /\ \E req \in Reqs, answer \in Answers :
          IF llama_client = <<>> \/ ~llama_client[1]._ready
          THEN /\ Responded(req, 503, <<>>, <<>>, <<>>)
               /\ UNCHANGED <<client, store>>
          ELSE LET cache_key == CacheKeyOf(req)
                   got == GetItem(cache, GenerateKey(cache_key, <<>>), now)
               IN  IF got.returned # <<>>
                   THEN /\ Responded(req, 200, got.returned, got.returned, <<>>)
                        /\ cache' = got.cache
                        /\ Called("get", cache_key, <<>>, "none", got.returned)
                        /\ UNCHANGED <<client, now>>
                   ELSE LET end == Generate(llama_client[1], req.prompt,
                                            req.system_prompt, req.max_tokens,
                                            req.temperature, answer)
                            resp == LlamaResponse(req, end.returned, 0)
                        IN  /\ http' = http \o end.sent
                            /\ UNCHANGED <<llama_client, client_calls, now>>
                            /\ IF end.raised = "none"
                               THEN /\ cache' = SetItem(got.cache,
                                                        GenerateKey(cache_key, <<>>),
                                                        resp, now)
                                    /\ Called("set", cache_key, <<>>, resp, <<>>)
                                    /\ Responded(req, 200, <<resp>>, <<>>, end.sent)
                               ELSE /\ cache' = got.cache
                                    /\ Called("get", cache_key, <<>>, "none", <<>>)
                                    /\ Responded(req, 500, <<>>, <<>>, end.sent)
    /\ UNCHANGED <<nlp, singletons>>

\* no request was made to /generate
NoRequests == gen_calls = <<>>

\* nothing outside the request handlers has happened
AtRest == Imported /\ NoClient /\ DefaultCache /\ NoRequests

(***************************************************************************)
(* Inputs: request texts and model outputs.                                *)
(***************************************************************************)
SeqsUpTo(S, n) == UNION {[1..m -> S] : m \in 0..n}

\* a special token, a padded ordinary token, and the ordinary tokens
TokenKinds ==
    { [token_id |-> 1, mask |-> 1], [token_id |-> 2, mask |-> 0],
      [token_id |-> 2, mask |-> 1], [token_id |-> 3, mask |-> 1],
      [token_id |-> 4, mask |-> 1] }

Scores == {1, 3}

Tokens(Kinds, PredIds, TokenScores) ==
    { [token_id |-> k.token_id, pred_id |-> p, mask |-> k.mask, score |-> s] :
        k \in Kinds, p \in PredIds, s \in TokenScores }

DecoderTokenSeqs ==
    SeqsUpTo(Tokens(TokenKinds, DOMAIN id2label, Scores), MaxTokens)

RunTokenSeqs ==
    SeqsUpTo(Tokens({[token_id |-> 1, mask |-> 1], [token_id |-> 2, mask |-> 0],
                     [token_id |-> 2, mask |-> 1]}, {1, 2, 3}, Scores),
             MaxRunTokens)

OffsetTokenSeqs ==
    SeqsUpTo(Tokens({[token_id |-> 2, mask |-> 1], [token_id |-> 3, mask |-> 1],
                     [token_id |-> 4, mask |-> 1]}, {2, 3}, Scores), MaxTokens)

\* every token opens a fragment: B- tags of two types on ordinary tokens
FragmentTokenSeqs ==
    SeqsUpTo(Tokens({[token_id |-> 2, mask |-> 1], [token_id |-> 3, mask |-> 1],
                     [token_id |-> 4, mask |-> 1]}, {2, 4}, Scores), MaxFragments)

\* B- tags of two types on the tokens "A", "c" and "a": entities that repeat,
\* that differ in case only, and that differ in type only
GroupTokenSeqs ==
    SeqsUpTo(Tokens({[token_id |-> 2, mask |-> 1], [token_id |-> 4, mask |-> 1],
                     [token_id |-> 5, mask |-> 1]}, {2, 4}, {1}), MaxGroupTokens)

\* "A" and "a" of one type, "c" of another
RequestTokenSeqs ==
    SeqsUpTo({[token_id |-> 2, pred_id |-> 2, mask |-> 1, score |-> 1],
              [token_id |-> 5, pred_id |-> 2, mask |-> 1, score |-> 1],
              [token_id |-> 4, pred_id |-> 4, mask |-> 1, score |-> 1]},
             MaxRequestTokens)

\* B- tags of two types on the tokens "A" and "c"
BoundaryTokenSeqs ==
    SeqsUpTo(Tokens({[token_id |-> 2, mask |-> 1], [token_id |-> 4, mask |-> 1]},
                    {2}, {1})
                \cup Tokens({[token_id |-> 4, mask |-> 1]}, {4}, {1}),
             MaxBoundaryTokens)

\* the tokens "A" and "c" tagged B-P
SplitTokenSeqs ==
    SeqsUpTo(Tokens({[token_id |-> 2, mask |-> 1], [token_id |-> 4, mask |-> 1]},
                    {2}, {1}), MaxChunkTokens)

\* the token "A" tagged B-P
ServiceTokenSeqs ==
    SeqsUpTo(Tokens({[token_id |-> 2, mask |-> 1]}, {2}, {1}), MaxChunkTokens)

\* label lists given to the scorer: none, one or several labels, repeated
\* labels among them
ScorerLabels == SeqsUpTo({"x", "y"}, MaxLabels)

\* outputs.logits of one model run: two classes (softmax) or three (maximum)
LogitSeqs == [1..2 -> {-1, 0, 2}] \cup [1..3 -> {0, 2}]

\* the logits of the model runs in whole requests
ServiceLogitSeqs == { <<0, 2>>, <<2, 0>> }

\* the texts given to the scorer
ScorerTexts == { Short(<<"a", " ", "B">>) }

\* request.candidate_labels
LabelSets == { <<>>, <<"x">>, <<"x", "y">> }

ChunkTokenSeqs ==
    SeqsUpTo(Tokens({[token_id |-> 2, mask |-> 1], [token_id |-> 4, mask |-> 1]},
                    {1, 2, 3}, {1}), MaxChunkTokens)


\* a request that has been received and not yet handled
Received ==
    /\ pc = "start"
    /\ use_onnx = FALSE
    /\ engine = "none"
    /\ calls = <<>>
    /\ status = 0
    /\ aggregator_runs = <<>>
    /\ split = FALSE
    /\ chunk_i = 0
    /\ offset = 0
    /\ tokens = <<>>
    /\ idx = 0
    /\ entities = <<>>
    /\ current_entity = <<>>
    /\ predictions = <<>>
    /\ results = <<>>
    /\ response = <<>>
    /\ grouped = <<>>
    /\ logits = <<>>
    /\ scores = <<>>
    /\ scorer_results = <<>>
    /\ model_runs = <<>>
    /\ reqs = <<>>

\* an NER request to a service that loaded every model
InitWith(Texts) ==
    /\ USE_ONNX = TRUE
    /\ onnx_ner_model = "ready"
    /\ ner_pipeline = "loaded"
    /\ onnx_zero_shot_model = "ready"
    /\ zero_shot_classifier = "loaded"
    /\ endpoint = "entities"
    /\ candidate_labels = <<>>
    /\ multi_label = FALSE
    /\ Received
    /\ request \in Texts
    /\ AtRest

(***************************************************************************)
(* Specifications.                                                         *)
(***************************************************************************)
\* whole requests, short and chunked documents
Init == InitWith(Documents)

Next ==
    \/ StartRequest
    \/ SkipBlankChunk
    \/ TakeChunk
    \/ CallModel(ChunkTokenSeqs)
    \/ ScanToken
    \/ FinishDecode
    \/ CollectChunk
    \/ CollectWhole
    \/ EndLoop
    \/ BuildResponse

Spec == Init /\ [][Next]_vars

\* one decode of a short text, every kind of token and label
InitDecoder == InitWith(DecoderTexts)

NextDecoder ==
    \/ StartRequest
    \/ CallModel(DecoderTokenSeqs)
    \/ ScanToken
    \/ FinishDecode
    \/ CollectWhole
    \/ BuildResponse

SpecDecoder == InitDecoder /\ [][NextDecoder]_vars

\* one decode of a short text, longer runs of B-/I-/O tokens of one type
NextRun ==
    \/ StartRequest
    \/ CallModel(RunTokenSeqs)
    \/ ScanToken
    \/ FinishDecode
    \/ CollectWhole
    \/ BuildResponse

SpecRun == InitDecoder /\ [][NextRun]_vars

\* one decode of each of several short texts, B-/I- tokens of every text
InitOffsets == InitWith(OffsetTexts)

NextOffsets ==
    \/ StartRequest
    \/ CallModel(OffsetTokenSeqs)
    \/ ScanToken
    \/ FinishDecode
    \/ CollectWhole
    \/ BuildResponse

SpecOffsets == InitOffsets /\ [][NextOffsets]_vars

\* one decode of a short text whose tokens each open a fragment, so that the
\* aggregator is handed up to MaxFragments fragments
InitAggregate == InitWith(AggregateTexts)

NextAggregate ==
    \/ StartRequest
    \/ CallModel(FragmentTokenSeqs)
    \/ ScanToken
    \/ FinishDecode
    \/ CollectWhole
    \/ BuildResponse

SpecAggregate == InitAggregate /\ [][NextAggregate]_vars

\* a request to either endpoint of a service in any state of its models, or
\* a direct call of the ONNX NER model object: the ONNX models exist only
\* when USE_ONNX is set, and may have failed to load (not ready); either
\* Hugging Face model may be missing
InitService ==
    /\ USE_ONNX \in BOOLEAN
    /\ endpoint \in {"entities", "zero-shot", "direct"}
    /\ endpoint = "direct" => USE_ONNX
    /\ onnx_ner_model \in
          IF ~USE_ONNX THEN {"None"}
          ELSE IF endpoint = "entities" THEN {"None", "not ready", "ready"}
          ELSE IF endpoint = "direct" THEN {"not ready", "ready"}
          ELSE {"ready"}
    /\ ner_pipeline \in
          IF endpoint = "entities" THEN {"None", "loaded"} ELSE {"loaded"}
    /\ onnx_zero_shot_model \in
          IF ~USE_ONNX THEN {"None"}
          ELSE IF endpoint = "zero-shot" THEN {"None", "not ready", "ready"}
          ELSE {"ready"}
    /\ zero_shot_classifier \in
          IF endpoint = "zero-shot" THEN {"None", "loaded"} ELSE {"loaded"}
    /\ candidate_labels \in IF endpoint = "zero-shot" THEN LabelSets ELSE {<<>>}
    /\ multi_label = FALSE
    /\ request \in ServiceTexts
    /\ Received
    /\ AtRest

NextService ==
    \/ StartRequest
    \/ SkipBlankChunk
    \/ TakeChunk
    \/ CallDirectly
    \/ CallNotReady
    \/ CallModel(ServiceTokenSeqs)
    \/ CallPipeline
    \/ EngineRaises
    \/ HandleError
    \/ ScanToken
    \/ FinishDecode
    \/ CollectChunk
    \/ CollectWhole
    \/ EndLoop
    \/ BuildResponse
    \/ StartZeroShot
    \/ CallZeroShot
    \/ EnterScorer
    \/ ScoreLabel(ServiceLogitSeqs)
    \/ SelectLabels
    \/ ReturnResponse
    \/ ZeroShotRaises
    \/ HandleZeroShotError

SpecService == InitService /\ [][NextService]_vars

\* one decode of a short text whose entities are grouped, by the primary
\* path or, when the engine raised, by the fallback path
InitGrouping == InitWith({Short(<<"A", ".", ".", "c">>)})

NextGrouping ==
    \/ StartRequest
    \/ CallModel(GroupTokenSeqs)
    \/ EngineRaises
    \/ HandleError
    \/ CallPipeline
    \/ ScanToken
    \/ FinishDecode
    \/ CollectWhole
    \/ BuildResponse

SpecGrouping == InitGrouping /\ [][NextGrouping]_vars

\* requests handled one after another by the primary or the fallback path
RequestTexts == { Short(<<"A", ".", ".", "c">>) }

InitRequests == InitWith(RequestTexts)

NextRequests ==
    \/ StartRequest
    \/ CallModel(RequestTokenSeqs)
    \/ EngineRaises
    \/ HandleError
    \/ CallPipeline
    \/ ScanToken
    \/ FinishDecode
    \/ CollectWhole
    \/ BuildResponse
    \/ NextRequest(RequestTexts)

SpecRequests == InitRequests /\ [][NextRequests]_vars

\* the locals of a call that has been received and has not run yet
NewFrame(ep, req, labels) ==
    [endpoint |-> ep, candidate_labels |-> labels, use_onnx |-> FALSE,
     engine |-> "none", calls |-> <<>>, status |-> 0, aggregator_runs |-> <<>>,
     pc |-> "start", request |-> req, split |-> FALSE, chunk_i |-> 0,
     offset |-> 0, tokens |-> <<>>, idx |-> 0, entities |-> <<>>,
     current_entity |-> <<>>, predictions |-> <<>>, results |-> <<>>,
     response |-> <<>>, grouped |-> <<>>, multi_label |-> FALSE, logits |-> <<>>,
     scores |-> <<>>, scorer_results |-> <<>>, model_runs |-> <<>>]

\* the requests that run side by side: NER requests for a short text and
\* for a document of two chunks, zero-shot requests with one or two labels
ConcurrentTexts ==
    { Short(<<"A", ".", ".", "c">>),
      Long(<<"A", "c", "\n", "\n", "A">>, ChunkThreshold, <<>>) }

ConcurrentFrames ==
    {NewFrame("entities", r, <<>>) : r \in ConcurrentTexts}
        \cup {NewFrame("zero-shot", Short(<<"a", " ", "B">>), l) :
                 l \in {<<"x">>, <<"x", "y">>}}

\* the tokens of the decodes of requests that run side by side
ConcurrentTokenSeqs ==
    { <<[token_id |-> 2, pred_id |-> 2, mask |-> 1, score |-> 1]>>,
      <<[token_id |-> 2, pred_id |-> 2, mask |-> 1, score |-> 1],
        [token_id |-> 4, pred_id |-> 3, mask |-> 1, score |-> 3]>> }

\* two requests are in flight against a service that loaded every model
InitConcurrent ==
    /\ USE_ONNX = TRUE
    /\ onnx_ner_model = "ready"
    /\ ner_pipeline = "loaded"
    /\ onnx_zero_shot_model = "ready"
    /\ zero_shot_classifier = "loaded"
    /\ \E f \in ConcurrentFrames :
          /\ endpoint = f.endpoint
          /\ candidate_labels = f.candidate_labels
          /\ use_onnx = f.use_onnx
          /\ engine = f.engine
          /\ calls = f.calls
          /\ status = f.status
          /\ aggregator_runs = f.aggregator_runs
          /\ pc = f.pc
          /\ request = f.request
          /\ split = f.split
          /\ chunk_i = f.chunk_i
          /\ offset = f.offset
          /\ tokens = f.tokens
          /\ idx = f.idx
          /\ entities = f.entities
          /\ current_entity = f.current_entity
          /\ predictions = f.predictions
          /\ results = f.results
          /\ response = f.response
          /\ grouped = f.grouped
          /\ multi_label = f.multi_label
          /\ logits = f.logits
          /\ scores = f.scores
          /\ scorer_results = f.scorer_results
          /\ model_runs = f.model_runs
    /\ reqs \in {<<f>> : f \in ConcurrentFrames}
    /\ AtRest

NextConcurrent ==
    \/ Switch
    \/ StartRequest
    \/ TakeChunk
    \/ CallModel(ConcurrentTokenSeqs)
    \/ ScanToken
    \/ FinishDecode
    \/ CollectChunk
    \/ CollectWhole
    \/ EndLoop
    \/ BuildResponse
    \/ StartZeroShot
    \/ EnterScorer
    \/ ScoreLabel(ServiceLogitSeqs)
    \/ SelectLabels
    \/ ReturnResponse

SpecConcurrent == InitConcurrent /\ [][NextConcurrent]_vars

\* direct calls of the zero-shot scorer object, ready or not, with any label
\* list and either value of multi_label
InitScorer ==
    /\ USE_ONNX = TRUE
    /\ onnx_ner_model = "ready"
    /\ ner_pipeline = "loaded"
    /\ onnx_zero_shot_model \in {"not ready", "ready"}
    /\ zero_shot_classifier = "loaded"
    /\ endpoint = "scorer"
    /\ candidate_labels \in ScorerLabels
    /\ multi_label \in BOOLEAN
    /\ request \in ScorerTexts
    /\ Received
    /\ AtRest

NextScorer ==
    \/ CallScorerDirectly
    \/ EnterScorer
    \/ ScoreLabel(LogitSeqs)
    \/ SelectLabels
    \/ ReturnResponse

SpecScorer == InitScorer /\ [][NextScorer]_vars

\* split documents of three chunks, blank chunks among them
InitSplit == InitWith(SplitDocuments)

NextSplit ==
    \/ StartRequest
    \/ SkipBlankChunk
    \/ TakeChunk
    \/ CallModel(SplitTokenSeqs)
    \/ ScanToken
    \/ FinishDecode
    \/ CollectChunk
    \/ EndLoop
    \/ BuildResponse

SpecSplit == InitSplit /\ [][NextSplit]_vars

\* documents of two chunks, several fragments in a chunk
InitChunks == InitWith(BoundaryDocuments)

NextChunks ==
    \/ StartRequest
    \/ TakeChunk
    \/ CallModel(BoundaryTokenSeqs)
    \/ ScanToken
    \/ FinishDecode
    \/ CollectChunk
    \/ EndLoop
    \/ BuildResponse

SpecChunks == InitChunks /\ [][NextChunks]_vars

\* a request to the NLP service that nothing in the specifications below
\* handles
NlpIdle ==
    /\ USE_ONNX = TRUE
    /\ onnx_ner_model = "ready"
    /\ ner_pipeline = "loaded"
    /\ onnx_zero_shot_model = "ready"
    /\ zero_shot_classifier = "loaded"
    /\ endpoint = "entities"
    /\ candidate_labels = <<>>
    /\ multi_label = FALSE
    /\ Received
    /\ request = Short(<<>>)

\* threads calling the singleton getters, with and without a model_path
ModelPaths == {"None", "models/other"}

InitSingletons == NlpIdle /\ Imported /\ NoClient /\ DefaultCache /\ NoRequests

NextSingletons ==
    \E t \in Callers :
        \/ CallGetter(t, ModelPaths)
        \/ CheckInstance(t)
        \/ Construct(t)
        \/ Assign(t)
        \/ ReturnInstance(t)

SpecSingletons == InitSingletons /\ [][NextSingletons]_vars

\* a client just constructed, then any calls of its methods against a server
\* that answers each request in any way
Hosts == { <<"http://localhost:11434">>, <<"http://localhost:11434", "/">> }

Ok(body) == [kind |-> "response", status |-> 200, body |-> body]

Failures ==
    { [kind |-> "response", status |-> 500,
       body |-> [text |-> "Internal server error"]],
      [kind |-> "RequestException"], [kind |-> "Exception"] }

\* what the server may answer to each request of the client, and the
\* lines it may stream
Answers ==
    [root |-> {Ok([text |-> "Ollama is running"])} \cup Failures,
     tags |-> { Ok([models |-> <<[name |-> "llama3:8b"]>>]),
                Ok([models |-> <<[name |-> "mistral"]>>]),
                Ok([error |-> "none"]) } \cup Failures,
     pull |-> {Ok([status |-> "success"])} \cup Failures,
     show |-> {Ok([model |-> [context_length |-> 4096]])} \cup Failures,
     generate |-> { Ok([response |-> "Generated text"]), Ok([done |-> TRUE]) }
                     \cup Failures,
     stream |-> { Ok([lines |-> << [empty |-> TRUE], [text |-> "not JSON"],
                                  [response |-> "Gen"], [response |-> "erated"] >>]),
                  Ok([lines |-> << [done |-> TRUE] >>]) } \cup Failures]

\* the system_prompt argument: absent, empty or given
SystemPrompts == {"None", "", "Be brief"}

InitClient ==
    /\ NlpIdle
    /\ Imported
    /\ DefaultCache
    /\ NoRequests
    /\ llama_client \in {<<NewClient("llama3:8b", host)>> : host \in Hosts}
    /\ http = <<>>
    /\ client_calls = <<>>

NextClient ==
    \/ CallTestConnection(Answers.root, Answers.tags, Answers.pull, Answers.show)
    \/ CallGenerate({"Test prompt"}, SystemPrompts, Answers.generate)
    \/ CallGenerateStreaming({"Test prompt"}, SystemPrompts, Answers.stream)
    \/ CallIsReady
    \/ CallGetModelParams

SpecClient == InitClient /\ [][NextClient]_vars

\* a cache of any small size and ttl, then any calls of its methods while
\* the clock advances
CacheArgs ==
    { [prompt |-> "p", kwargs |-> <<>>],
      [prompt |-> "p", kwargs |-> [temperature |-> "0.7"]],
      [prompt |-> "q", kwargs |-> <<>>] }

Ttls == {0, 1}

CacheResults == {"r1", "r2"}

InitCache ==
    /\ NlpIdle
    /\ Imported
    /\ NoClient
    /\ NoRequests
    /\ cache \in {NewCache(max_size, ttl) : max_size \in 1..MaxSize, ttl \in Ttls}
    /\ now = 0
    /\ NotCalled

NextCache ==
    \/ \E args \in CacheArgs : CacheGet(args.prompt, args.kwargs)
    \/ \E args \in CacheArgs, result \in CacheResults :
          CacheSet(args.prompt, result, args.kwargs)
    \/ CacheClear
    \/ CacheSize
    \/ CachePrune
    \/ Tick(1)

SpecCache == InitCache /\ [][NextCache]_vars

\* the llama service from its start: requests to /generate that differ in
\* each of their fields, a server that generates two texts or refuses, and
\* a clock that steps past the ttl of the cache
GenerateRequests ==
    [prompt : {<<"a">>, <<"a", ":", "1">>},
     system_prompt : {"None", "Be brief"},
     max_tokens : {1, 2},
     temperature : {7, 10}]

InitGeneration == NlpIdle /\ AtRest

NextGeneration ==
    \/ Startup({Ok([text |-> "Ollama is running"]), [kind |-> "RequestException"]},
               {Ok([models |-> <<[name |-> MODEL_NAME]>>])},
               Answers.pull, Answers.show)
    \/ GenerateText(GenerateRequests,
                    { Ok([response |-> "t1"]), Ok([response |-> "t2"]),
                      [kind |-> "response", status |-> 500,
                       body |-> [text |-> "Internal server error"]] })
    \/ Tick(3601)

SpecGeneration == InitGeneration /\ [][NextGeneration]_vars

(***************************************************************************)
(* Vocabulary of the properties below, stated apart from the operators     *)
(* that model the code.                                                    *)
(***************************************************************************)
\* the loop is about to scan tokens[idx + 1]
Scanning == pc = "scan" /\ idx < Len(tokens)

NextToken == tokens[idx + 1]

\* padding (attention-mask 0) or a special-token id
Padding(tok) == tok.mask = 0

Special(tok) == tok.token_id \in all_special_ids

Counted(tok) == ~Padding(tok) /\ ~Special(tok)

TagOf(tok) == id2label[tok.pred_id]

\* the tag is <letter>-<T>
HasPrefix(tok, letter) ==
    /\ Len(TagOf(tok)) >= 2
    /\ TagOf(tok)[1] = letter
    /\ TagOf(tok)[2] = "-"

\* <T> of a tag <letter>-<T>
TypeOf(tok) == SubSeq(TagOf(tok), 3, Len(TagOf(tok)))

\* the surface text of a token without the sub-word prefix
Surface(tok) ==
    LET w == Vocab[tok.token_id]
    IN  IF Len(w) >= 2 /\ w[1] = "#" /\ w[2] = "#" THEN SubSeq(w, 3, Len(w)) ELSE w

IsOpen == current_entity # <<>>

\* C1: a non-skipped token tagged B-<T> appends the open fragment, if any,
\* unchanged to the output and opens a fragment of type T with the token's
\* surface text (## stripped) and the token's score; the decoder is then in
\* IN_ENTITY(T) whatever it was in before.
C1_BeginStep ==
    [][ (Scanning /\ Counted(NextToken) /\ HasPrefix(NextToken, "B")) =>
          /\ entities' = IF IsOpen THEN Append(entities, current_entity[1])
                                   ELSE entities
          /\ Len(current_entity') = 1
          /\ current_entity'[1].entity_group = TypeOf(NextToken)
          /\ current_entity'[1].word = Surface(NextToken)
          /\ current_entity'[1].score = [num |-> NextToken.score, den |-> 1]
          /\ idx' = idx + 1 ]_vars

\* a B- token has just closed an open two-token fragment and opened its own
C1_Witness ==
    /\ pc = "scan"
    /\ idx = 2
    /\ Counted(tokens[1]) /\ HasPrefix(tokens[1], "B")
    /\ Counted(tokens[2]) /\ HasPrefix(tokens[2], "B")
    /\ TypeOf(tokens[1]) # TypeOf(tokens[2])
    /\ Len(entities) = 1
    /\ IsOpen
    /\ current_entity[1].entity_group = TypeOf(tokens[2])

RECURSIVE SumOfScores(_, _)
SumOfScores(toks, n) == IF n = 0 THEN 0 ELSE SumOfScores(toks, n - 1) + toks[n].score

\* the whole token sequence is one B-<T> token followed by matching I-<T> tokens
OneRun(toks) ==
    /\ Len(toks) >= 1
    /\ \A k \in 1..Len(toks) : Counted(toks[k])
    /\ HasPrefix(toks[1], "B")
    /\ \A k \in 2..Len(toks) :
          HasPrefix(toks[k], "I") /\ TypeOf(toks[k]) = TypeOf(toks[1])

\* C2: the fragment built from one B-<T> token followed by n-1 matching
\* I-<T> tokens is emitted with the arithmetic mean (s1 + ... + sn) / n of
\* the token scores as its score.
C2_ScoreIsMean ==
    (pc = "returned" /\ OneRun(tokens)) =>
        /\ Len(entities) = 1
        /\ ScoreEq(entities[1].score,
                   [num |-> SumOfScores(tokens, Len(tokens)), den |-> Len(tokens)])

\* C3: a non-skipped I-<T> token that finds no open fragment, or an open
\* fragment of another type, leaves the output list, the open fragment and
\* the decoder state as they were.
C3_OrphanedInside ==
    [][ (/\ Scanning /\ Counted(NextToken) /\ HasPrefix(NextToken, "I")
         /\ (~IsOpen \/ current_entity[1].entity_group # TypeOf(NextToken))) =>
          /\ entities' = entities
          /\ current_entity' = current_entity
          /\ idx' = idx + 1 ]_vars

\* an I-<T> token has met an open fragment of another type and changed nothing
C3_Witness ==
    /\ pc = "scan"
    /\ idx = 2
    /\ Counted(tokens[1]) /\ HasPrefix(tokens[1], "B")
    /\ Counted(tokens[2]) /\ HasPrefix(tokens[2], "I")
    /\ TypeOf(tokens[1]) # TypeOf(tokens[2])
    /\ entities = <<>>
    /\ IsOpen
    /\ current_entity[1].entity_group = TypeOf(tokens[1])
    /\ current_entity[1].word = Surface(tokens[1])

\* C4: a non-skipped token whose tag starts with neither B- nor I- emits the
\* open fragment and returns the decoder to NONE; with nothing open it
\* changes nothing; the scan goes on to the next token for every tag.
C4_OtherTag ==
    [][ (/\ Scanning /\ Counted(NextToken)
         /\ ~HasPrefix(NextToken, "B") /\ ~HasPrefix(NextToken, "I")) =>
          /\ entities' = IF IsOpen THEN Append(entities, current_entity[1])
                                   ELSE entities
          /\ current_entity' = <<>>
          /\ idx' = idx + 1
          /\ pc' = "scan" ]_vars

\* a tag that is no BIO tag at all has closed the fragment a B- token opened
C4_Witness ==
    /\ pc = "scan"
    /\ idx = 2
    /\ Counted(tokens[1]) /\ HasPrefix(tokens[1], "B")
    /\ Counted(tokens[2]) /\ TagOf(tokens[2]) = <<"B", "P">>
    /\ Len(entities) = 1
    /\ entities[1].word = Surface(tokens[1])
    /\ ~IsOpen

\* C5: a fragment still open after the last token is emitted as the last
\* element of the fragment list (and nothing else is added); an empty token
\* sequence yields an empty fragment list.
C5_EndOfSequence ==
    /\ [][ (pc = "scan" /\ idx = Len(tokens)) =>
             /\ entities' = IF IsOpen THEN Append(entities, current_entity[1])
                                      ELSE entities
             /\ pc' = "returned" ]_vars
    /\ []((pc = "returned" /\ tokens = <<>>) =>
             (entities = <<>> /\ predictions = <<>>))

\* the sequence ended on a B- token and its fragment is last in the list
C5_Witness ==
    /\ pc = "returned"
    /\ Len(tokens) = 2
    /\ Counted(tokens[1]) /\ HasPrefix(tokens[1], "B")
    /\ Counted(tokens[2]) /\ HasPrefix(tokens[2], "B")
    /\ Len(entities) = 2
    /\ entities[2].word = Surface(tokens[2])
    /\ entities[2].entity_group = TypeOf(tokens[2])

\* the decode of a whole token sequence, from no fragment
RECURSIVE DecodeFrom(_, _, _, _, _)
DecodeFrom(toks, i, ents, cur, txt) ==
    IF i > Len(toks) THEN Loop(ents, cur)
    ELSE LET r == ProcessToken(ents, cur, txt, toks[i], i - 1)
         IN  DecodeFrom(toks, i + 1, r.entities, r.current_entity, txt)

Decode(toks, txt) ==
    LET r == DecodeFrom(toks, 1, <<>>, <<>>, txt)
    IN  IF r.current_entity # <<>> THEN Append(r.entities, r.current_entity[1])
                                   ELSE r.entities

WithoutSkipped(toks) == SelectSeq(toks, Counted)

\* C6: a padding or special token causes no transition whatever its tag, and
\* a token sequence decodes to the fragment list of the same sequence with
\* its padding and special tokens removed.
C6_SkippedTokens ==
    /\ [][ (Scanning /\ (Padding(NextToken) \/ Special(NextToken))) =>
             /\ entities' = entities
             /\ current_entity' = current_entity ]_vars
    /\ [](pc = "returned" => entities = Decode(WithoutSkipped(tokens), CurrentText))

\* B-T, <special token tagged B-T>, I-T has formed one fragment
C6_Witness ==
    /\ pc = "returned"
    /\ Len(tokens) = 3
    /\ Counted(tokens[1]) /\ HasPrefix(tokens[1], "B")
    /\ Special(tokens[2]) /\ HasPrefix(tokens[2], "B")
    /\ Counted(tokens[3]) /\ HasPrefix(tokens[3], "I")
    /\ Len(entities) = 1
    /\ entities[1].word = Surface(tokens[1]) \o Surface(tokens[3])

\* C7: when no non-skipped token is tagged B-* or I-*, the decoder returns
\* an empty fragment list.
C7_NoEntityTags ==
    (/\ pc \in {"returned", "convert", "done"}
     /\ \A k \in 1..Len(tokens) :
           Counted(tokens[k]) =>
               (~HasPrefix(tokens[k], "B") /\ ~HasPrefix(tokens[k], "I")))
    => (entities = <<>> /\ predictions = <<>> /\ results = <<>> /\ response = <<>>)

\* a padded token tagged B- and an ordinary token tagged O gave nothing
C7_Witness ==
    /\ pc = "done"
    /\ Len(tokens) = 2
    /\ Padding(tokens[1]) /\ ~Special(tokens[1]) /\ HasPrefix(tokens[1], "B")
    /\ Counted(tokens[2]) /\ TagOf(tokens[2]) = <<"O">>
    /\ response = <<>>

\* lowercase(t) occurs in lowercase(c) at 0-based index p
OccursLowered(t, c, p) ==
    /\ 0 <= p
    /\ p + Len(t) <= Len(c)
    /\ \A k \in 1..Len(t) : LowerChar(c[p + k]) = LowerChar(t[k])

\* the span the resolution is to give for token text t in chunk text c
IsSpanOf(span, t, c) ==
    IF \E p \in 0..Len(c) : OccursLowered(t, c, p)
    THEN /\ OccursLowered(t, c, span[1])
         /\ \A q \in 0..(span[1] - 1) : ~OccursLowered(t, c, q)
         /\ span[2] = span[1] + Len(t)
    ELSE span = <<-1, -1>>

\* C8: the span of a token text t in a chunk text c is (p, p + len(t)) for
\* the smallest p at which lowercase(t) occurs in lowercase(c), whatever the
\* token's index and the tokens before it, and (-1, -1) when there is none.
C8_OffsetResolution ==
    [][ (Scanning /\ Counted(NextToken)) =>
          /\ HasPrefix(NextToken, "B") =>
                IsSpanOf(<<current_entity'[1].start, current_entity'[1].end>>,
                         Surface(NextToken), CurrentText)
          /\ (/\ HasPrefix(NextToken, "I") /\ IsOpen
              /\ current_entity[1].entity_group = TypeOf(NextToken)) =>
                \E p \in -1..Len(CurrentText) :
                    /\ IsSpanOf(<<p, current_entity'[1].end>>,
                                Surface(NextToken), CurrentText)
                    /\ current_entity'[1].start = current_entity[1].start ]_vars

\* in a text that holds "a" twice the token "A" resolved to the first of
\* them, and a token that is not in the text resolved to (-1, -1)
C8_Witness ==
    /\ pc = "returned"
    /\ request.head = <<"a", " ", "B", " ", "a">>
    /\ Len(tokens) = 2
    /\ Len(entities) = 2
    /\ entities[1].word = <<"A">> /\ entities[1].start = 0 /\ entities[1].end = 1
    /\ entities[2].word = <<"c">> /\ entities[2].start = -1 /\ entities[2].end = -1

\* C9: every Entity of an NER response has 0 <= start <= end <= len(document).
C9_OffsetsInDocument ==
    pc = "done" =>
        \A k \in 1..Len(response) :
            /\ 0 <= response[k].start
            /\ response[k].start <= response[k].end
            /\ response[k].end <= Len(text)

\* C10: an entity the decoder returned with start = -1 is in the result list,
\* and so in the response, with start = -1, for a document decoded whole and
\* for every chunk of a split document.
C10_MissPropagated ==
    [][ pc = "returned" =>
          /\ Len(results') = (IF split THEN Len(results) ELSE 0) + Len(predictions)
          /\ \A k \in 1..Len(predictions) :
                predictions[k].start = -1 =>
                    results'[(IF split THEN Len(results) ELSE 0) + k].start = -1 ]_vars

\* the aggregator's output for the first k fragments of the decode
AggregatedPrefix(k) == AggregateEntities(SubSeq(entities, 1, k))

Last(s) == s[Len(s)]

Front(s) == SubSeq(s, 1, Len(s) - 1)

\* g.type == a.type and g.start - a.end <= 1
Mergeable(a, g) == g.entity_group = a.entity_group /\ g.start - a.end <= 1

\* m is a merged into g as the merge step is to do it
IsMergeOf(m, a, g) ==
    /\ m.word = a.word \o <<" ">> \o g.word
    /\ m.start = a.start
    /\ m.end = g.end
    /\ m.entity_group = a.entity_group
    /\ ScoreEq(m.score, [num |-> a.score.num * g.score.den + g.score.num * a.score.den,
                         den |-> 2 * a.score.den * g.score.den])

\* C11: the aggregator scans the fragments in order with an accumulator a
\* (the last element of its output so far); the next fragment g is merged
\* into a exactly when g.type = a.type and g.start - a.end <= 1, and the
\* merged accumulator has text a.text + " " + g.text, start a.start, end
\* g.end, a's type and score (a.score + g.score) / 2; otherwise g becomes
\* the new accumulator and a stays in the output.
C11_MergeStep ==
    pc = "returned" =>
        /\ predictions = AggregatedPrefix(Len(entities))
        /\ entities # <<>> => AggregatedPrefix(1) = <<entities[1]>>
        /\ \A k \in 1..(Len(entities) - 1) :
              LET out == AggregatedPrefix(k)
                  next == AggregatedPrefix(k + 1)
                  a == Last(out)
                  g == entities[k + 1]
              IN  IF Mergeable(a, g)
                  THEN /\ Len(next) = Len(out)
                       /\ Front(next) = Front(out)
                       /\ IsMergeOf(Last(next), a, g)
                  ELSE next = Append(out, g)

\* three fragments of one type were merged into one entity whose score is
\* ((1 + 1) / 2 + 3) / 2 = 2 and not the mean 5/3 of the chain
C11_Witness ==
    /\ pc = "returned"
    /\ Len(entities) = 3
    /\ \A k \in 1..3 : entities[k].entity_group = <<"P">>
    /\ entities[1].score = Score(1) /\ entities[2].score = Score(1)
    /\ entities[3].score = Score(3)
    /\ entities[1].word = <<"b">> /\ entities[2].word = <<"A">>
    /\ entities[3].word = <<"A">>
    /\ Len(predictions) = 1
    /\ predictions[1].word = <<"b", " ", "A", " ", "A">>
    /\ predictions[1].start = 0 /\ predictions[1].end = 2
    /\ ScoreEq(predictions[1].score, Score(2))

\* the texts of the first n elements of a fragment or entity list, in order
RECURSIVE ConcatWords(_, _)
ConcatWords(ents, n) ==
    IF n = 0 THEN <<>> ELSE ConcatWords(ents, n - 1) \o ents[n].word

NotSpace(c) == c # " "

\* C12: the aggregator's output is no longer than its input and is empty
\* exactly when the input is empty, and the output texts concatenated, with
\* the joining spaces removed, are the input fragment texts concatenated in
\* order.
C12_Conservation ==
    pc = "returned" =>
        /\ Len(predictions) <= Len(entities)
        /\ (predictions = <<>>) <=> (entities = <<>>)
        /\ SelectSeq(ConcatWords(predictions, Len(predictions)), NotSpace)
             = ConcatWords(entities, Len(entities))

\* three fragments became two entities: the first two merged, the third of
\* another type kept apart
C12_Witness ==
    /\ pc = "returned"
    /\ Len(entities) = 3
    /\ Len(predictions) = 2
    /\ predictions[1].word = <<"A", " ", "b">>
    /\ predictions[2].word = <<"c">>
    /\ predictions[2].entity_group = <<"L">>

\* g begins where f ends or one character after it
AdjacentInText(f, g) == g.start - f.end \in {0, 1}

\* the fragments k and k + 1 of the decode were kept apart by the aggregator
KeptApart(k) == Len(AggregatedPrefix(k + 1)) = Len(AggregatedPrefix(k)) + 1

\* C13: two consecutive fragments of different type are never merged, and
\* two consecutive fragments of one type that are not adjacent in the chunk
\* text are never merged, whether the next fragment starts more than one
\* character after the accumulator's end or before it (a repeated word
\* resolved to its first occurrence, a start of -1).
C13_Separation ==
    pc = "returned" =>
        \A k \in 1..(Len(entities) - 1) :
            (\/ entities[k + 1].entity_group # entities[k].entity_group
             \/ ~AdjacentInText(entities[k], entities[k + 1]))
            => KeptApart(k)

\* the part of the separation rule the code keeps: fragments of different
\* type, and fragments the next of which starts more than one character
\* after the other's end, are kept apart
C13_SeparatedAfter ==
    pc = "returned" =>
        \A k \in 1..(Len(entities) - 1) :
            (\/ entities[k + 1].entity_group # entities[k].entity_group
             \/ entities[k + 1].start - entities[k].end > 1)
            => KeptApart(k)

Answered == pc = "done" /\ status = 200

\* the entities a decode of the whole document as one chunk returns
WholeDecode == AggregateEntities(Decode(tokens, text))

\* C14: a document of at most 5000 characters is never split, also when it
\* holds "\n\n": the whole text is decoded exactly once, no offset is
\* added, and the offsets of the response are those of the decode of the
\* text as a single chunk.
C14_SmallNotSplit ==
    Len(text) <= ChunkThreshold =>
        /\ ~split
        /\ offset = 0
        /\ \A c \in 1..Len(calls) : calls[c].chunk = 0
        /\ Len(calls) <= 1
        /\ Answered =>
              /\ Len(calls) = 1
              /\ Len(response) = Len(WholeDecode)
              /\ \A k \in 1..Len(response) :
                    /\ response[k].start = WholeDecode[k].start
                    /\ response[k].end = WholeDecode[k].end

\* a text of exactly 5000 characters with "\n\n" at index 1 was answered
\* with the entity "A" at its index 3 in the document
C14_Witness ==
    /\ Answered
    /\ Len(text) = ChunkThreshold
    /\ \E p \in 0..3 : OccursAt(text, Separator, p)
    /\ Len(calls) = 1
    /\ Len(response) = 1
    /\ response[1].entity = <<"A">>
    /\ response[1].start = 3 /\ response[1].end = 4

\* the sum over the chunks before chunk i of (len(chunk) + 2)
RECURSIVE SumBefore(_)
SumBefore(i) == IF i <= 1 THEN 0 ELSE SumBefore(i - 1) + Len(chunks[i - 1]) + 2

\* chunk i begins at index p of the document: it lies there, after a
\* separator or at the very beginning
BeginsAt(i, p) ==
    /\ OccursAt(text, chunks[i], p)
    /\ IF i = 1 THEN p = 0 ELSE OccursAt(text, Separator, p - 2)

\* C15: in a document longer than 5000 characters the offset added to the
\* start and end of every fragment decoded from chunk i is the sum over the
\* chunks j before it of len(chunk j) + 2, blank chunks included, and that
\* is the index of the document at which chunk i begins.
C15_ChunkOffset ==
    /\ []((pc \in {"call", "scan", "returned"} /\ split) =>
             /\ offset = SumBefore(chunk_i)
             /\ BeginsAt(chunk_i, offset))
    /\ [][ (pc = "returned" /\ split) =>
             /\ Len(results') = Len(results) + Len(predictions)
             /\ \A k \in 1..Len(predictions) :
                   LET e == results'[Len(results) + k]
                   IN  /\ e.start = predictions[k].start + SumBefore(chunk_i)
                       /\ e.end = predictions[k].end + SumBefore(chunk_i)
                       /\ e.word = predictions[k].word ]_vars

\* the fragment at local offset 10 of the second of three chunks of 4000
\* characters is in the response at 4012
C15_Witness ==
    /\ Answered
    /\ Len(chunks) = 3
    /\ \A i \in 1..3 : Len(chunks[i]) = 4000
    /\ OccursAt(chunks[2], <<"A">>, 10)
    /\ Len(response) = 1
    /\ response[1].entity = <<"A">>
    /\ response[1].start = 4012 /\ response[1].end = 4013

\* chunk i is empty or holds whitespace only
Blank(i) == \A k \in 1..Len(chunks[i]) : chunks[i][k] \in {" ", "\n"}

\* C16: in a split document a chunk that is empty or whitespace-only is
\* never passed to the decoder and adds no fragment, and the offset still
\* advances by len(chunk) + 2 over it, so that a chunk after it is decoded
\* with the offset at which it begins in the document.
C16_BlankChunks ==
    /\ [](split => \A c \in 1..Len(calls) : ~Blank(calls[c].chunk))
    /\ [][ (pc = "loop" /\ chunk_i < Len(chunks) /\ Blank(chunk_i + 1)) =>
             /\ calls' = calls
             /\ results' = results
             /\ predictions' = predictions
             /\ offset' = offset + Len(chunks[chunk_i + 1]) + 2
             /\ chunk_i' = chunk_i + 1
             /\ pc' = "loop" ]_vars
    /\ []((pc = "returned" /\ split /\ \E j \in 1..(chunk_i - 1) : Blank(j)) =>
             BeginsAt(chunk_i, offset))

\* a document whose second chunk is one space: the chunks 1 and 3 were
\* decoded, and the entity at index 5000 of chunk 3 is answered at 5006
C16_Witness ==
    /\ Answered
    /\ Len(chunks) = 3
    /\ chunks[2] = <<" ">>
    /\ Len(calls) = 2
    /\ calls[1].chunk = 1 /\ calls[2].chunk = 3
    /\ Len(response) = 1
    /\ response[1].start = 5006 /\ response[1].end = 5007

\* the offset of the chunk the k-th decode of the request was given
RunOffset(k) == SumBefore(calls[k].chunk)

ShiftedBy(frags, off) ==
    [m \in 1..Len(frags) |->
        [frags[m] EXCEPT !.start = frags[m].start + off, !.end = frags[m].end + off]]

\* the fragments of the first n decodes, offset-corrected, in order
RECURSIVE AllFragments(_)
AllFragments(n) ==
    IF n = 0 THEN <<>>
    ELSE AllFragments(n - 1) \o ShiftedBy(aggregator_runs[n], RunOffset(n))

\* the entities of the first n decodes, each decode aggregated by itself,
\* offset-corrected, in order
RECURSIVE PerChunkEntities(_)
PerChunkEntities(n) ==
    IF n = 0 THEN <<>>
    ELSE PerChunkEntities(n - 1)
            \o ShiftedBy(AggregateEntities(aggregator_runs[n]), RunOffset(n))

AsEntities(items) ==
    [m \in 1..Len(items) |->
        [entity |-> items[m].word, type |-> items[m].entity_group,
         score |-> items[m].score, start |-> items[m].start, end |-> items[m].end]]

\* C17: for a split document the aggregator runs exactly once, over the
\* whole offset-corrected fragment list after all chunks are decoded and not
\* once per chunk, and the response entities are the result of that one pass.
C17_AggregatedOnce ==
    (Answered /\ split) =>
        /\ Len(aggregator_runs) = 1
        /\ response = AsEntities(AggregateEntities(AllFragments(Len(calls))))

\* C17 as the code has it: for a split document the aggregator runs once in
\* every chunk decode, over the fragments of that chunk at their offsets in
\* the chunk, and the response entities are the per-chunk results, each
\* shifted by its chunk's offset, one after the other in chunk order.
C17_AggregatedPerChunk ==
    (Answered /\ split) =>
        /\ Len(aggregator_runs) = Len(calls)
        /\ response = AsEntities(PerChunkEntities(Len(calls)))

\* the two fragments of the first chunk were merged by that chunk's run of
\* the aggregator, the fragment of the second chunk came from another run
C17_Witness ==
    /\ Answered
    /\ split
    /\ Len(aggregator_runs) = 2
    /\ Len(aggregator_runs[1]) = 2
    /\ Len(aggregator_runs[2]) = 1
    /\ Len(response) = 2
    /\ response[1].entity = <<"A", " ", "c">>
    /\ response[1].start = 0 /\ response[1].end = 2
    /\ response[2].entity = <<"A">>
    /\ response[2].start = 4 /\ response[2].end = 5

\* the number of entities the first k decodes gave
RECURSIVE EntitiesUpTo(_)
EntitiesUpTo(k) ==
    IF k = 0 THEN 0
    ELSE EntitiesUpTo(k - 1) + Len(AggregateEntities(aggregator_runs[k]))

RECURSIVE ConcatTexts(_, _)
ConcatTexts(ents, n) ==
    IF n = 0 THEN <<>> ELSE ConcatTexts(ents, n - 1) \o ents[n].entity

\* C18: in a split document no entity of the response combines fragments of
\* two chunks: the entities of the response divide, in order, into one group
\* for every decoded chunk whose texts are made of that chunk's fragments
\* and of no other; a fragment ending a chunk and a fragment of the same
\* type beginning the next are two entities.
C18_NoMergeAcrossChunks ==
    (Answered /\ split) =>
        /\ Len(response) = EntitiesUpTo(Len(calls))
        /\ \A k \in 1..Len(calls) :
              LET group == SubSeq(response, EntitiesUpTo(k - 1) + 1, EntitiesUpTo(k))
              IN  SelectSeq(ConcatTexts(group, Len(group)), NotSpace)
                    = ConcatWords(aggregator_runs[k], Len(aggregator_runs[k]))
        /\ \A k \in 1..(Len(calls) - 1) :
              (/\ aggregator_runs[k] # <<>>
               /\ aggregator_runs[k + 1] # <<>>
               /\ Last(aggregator_runs[k]).entity_group
                     = aggregator_runs[k + 1][1].entity_group)
              => /\ EntitiesUpTo(k - 1) < EntitiesUpTo(k)
                 /\ EntitiesUpTo(k) < EntitiesUpTo(k + 1)

\* the fragment of the first chunk ends at 1, the fragment of the second
\* chunk, of the same type, is reported starting at 2, and they are two
\* entities of the response
C18_Witness ==
    /\ Answered
    /\ split
    /\ Len(calls) = 2
    /\ Len(response) = 2
    /\ response[1].type = response[2].type
    /\ response[1].end = 1
    /\ response[2].start = 2
    /\ response[2].start - response[1].end <= 1

Fallback == "HuggingFace (fallback)"

SomeCallRaised == \E k \in 1..Len(calls) : calls[k].raised

\* what the fallback engine returned in the first n calls of the request,
\* every chunk's entities at their offsets in the document, in order
RECURSIVE FallbackOuts(_)
FallbackOuts(n) ==
    IF n = 0 THEN <<>>
    ELSE FallbackOuts(n - 1)
            \o (IF calls[n].engine = Fallback
                THEN ShiftedBy(calls[n].out, SumBefore(calls[n].chunk))
                ELSE <<>>)

\* the chunks an engine was called with in the first n calls, in order
RECURSIVE ChunksGivenTo(_, _)
ChunksGivenTo(eng, n) ==
    IF n = 0 THEN <<>>
    ELSE ChunksGivenTo(eng, n - 1)
            \o (IF calls[n].engine = eng THEN <<calls[n].chunk>> ELSE <<>>)

\* the chunks of the document that are to be decoded, in order; 0 stands for
\* the whole text of a document that is not split
RECURSIVE NonBlankUpTo(_)
NonBlankUpTo(i) ==
    IF i = 0 THEN <<>>
    ELSE NonBlankUpTo(i - 1) \o (IF Blank(i) THEN <<>> ELSE <<i>>)

WholeInput ==
    IF endpoint = "entities" /\ Len(text) > ChunkThreshold
    THEN NonBlankUpTo(Len(chunks)) ELSE <<0>>

\* C19: when the decode of a chunk raises, nothing the failing engine
\* decoded from earlier chunks is in the response: the request ends in an
\* error with no entities, or the handler starts again from an empty result
\* list and the response is made of what the other engine returned for the
\* whole document.
C19_NoPartialResults ==
    /\ [][ (pc = "except" /\ endpoint = "entities") =>
             \/ status' = 500 /\ pc' = "done" /\ response' = <<>>
             \/ /\ engine # Fallback /\ engine' = Fallback
                /\ results' = <<>> /\ offset' = 0 /\ chunk_i' = 0 ]_vars
    /\ []((pc = "done" /\ endpoint = "entities" /\ SomeCallRaised) =>
             \/ status = 500 /\ response = <<>>
             \/ /\ status = 200
                /\ ChunksGivenTo(Fallback, Len(calls)) = WholeInput
                /\ response = AsEntities(FallbackOuts(Len(calls))))

\* ONNX decoded an entity from the first chunk and raised on the second;
\* the answer holds no entity, the fallback having found none in any chunk
C19_Witness ==
    /\ pc = "done"
    /\ endpoint = "entities"
    /\ status = 200
    /\ Len(calls) = 4
    /\ calls[1].engine = "ONNX" /\ calls[1].chunk = 1 /\ Len(calls[1].out) = 1
    /\ calls[2].engine = "ONNX" /\ calls[2].chunk = 2 /\ calls[2].raised
    /\ calls[3].engine = Fallback /\ calls[3].chunk = 1
    /\ calls[4].engine = Fallback /\ calls[4].chunk = 2
    /\ response = <<>>

\* the Hugging Face model of the endpoint is loaded
AlternateLoaded ==
    IF endpoint = "entities" THEN ner_pipeline # "None"
                             ELSE zero_shot_classifier # "None"

\* the number of calls that raised among the first n
RECURSIVE RaisedUpTo(_)
RaisedUpTo(n) ==
    IF n = 0 THEN 0 ELSE RaisedUpTo(n - 1) + (IF calls[n].raised THEN 1 ELSE 0)

\* the last call of the request raised
LastRaised == calls # <<>> /\ calls[Len(calls)].raised

\* the engine that was selected first raised
PrimaryRaised ==
    \E k \in 1..Len(calls) : calls[k].raised /\ calls[k].engine # Fallback

\* no engine is called twice with the same chunk or label set
OncePerInput ==
    \A j, k \in 1..Len(calls) :
        (j # k /\ calls[j].engine = calls[k].engine)
            => calls[j].chunk # calls[k].chunk

\* the fallback engine is called only after a call of the ONNX engine
\* raised, with the Hugging Face model loaded, and a call that raised is
\* followed by nothing but fallback calls
RetryFollowsFailure ==
    \A k \in 1..Len(calls) :
        /\ calls[k].raised =>
              (k = Len(calls) \/ calls[k + 1].engine = Fallback)
        /\ (calls[k].engine = Fallback /\ k > 1 /\ calls[k - 1].engine # Fallback)
              => (calls[k - 1].raised /\ calls[k - 1].engine = "ONNX")
        /\ calls[k].engine = Fallback => (k > 1 /\ use_onnx /\ AlternateLoaded)

\* C20: on either endpoint, when the ONNX engine was selected and raises and
\* the Hugging Face model is loaded, the request is tried again once on the
\* Hugging Face model over the whole input; when that raises too, or the
\* engine that raised was the Hugging Face model, or none is loaded, the
\* answer is HTTP 500; and no engine is called twice for one chunk or one
\* label set apart from that one retry.
C20_EngineFallback ==
    /\ [][ (pc \in {"except", "classify except"}) =>
             IF engine = "ONNX" /\ AlternateLoaded
             THEN engine' = Fallback /\ status' = 0 /\ calls' = calls
             ELSE status' = 500 /\ pc' = "done" /\ calls' = calls ]_vars
    /\ [](OncePerInput /\ RetryFollowsFailure /\ RaisedUpTo(Len(calls)) <= 2)
    /\ []((pc = "done" /\ PrimaryRaised) =>
             IF use_onnx /\ AlternateLoaded
             THEN /\ ChunksGivenTo(Fallback, Len(calls)) \in
                        {SubSeq(WholeInput, 1, n) : n \in 1..Len(WholeInput)}
                  /\ IF LastRaised THEN status = 500
                     ELSE /\ status = 200
                          /\ ChunksGivenTo(Fallback, Len(calls)) = WholeInput
             ELSE /\ status = 500
                  /\ RaisedUpTo(Len(calls)) = 1
                  /\ LastRaised)

\* a zero-shot request whose ONNX call raised was answered by the one call
\* of the Hugging Face classifier that followed
C20_Witness ==
    /\ pc = "done"
    /\ endpoint = "zero-shot"
    /\ status = 200
    /\ Len(calls) = 2
    /\ calls[1].engine = "ONNX" /\ calls[1].raised
    /\ calls[2].engine = Fallback /\ ~calls[2].raised
    /\ response = calls[2].out
    /\ response.labels = candidate_labels

\* ---- model availability gate ----

\* the request is one of the two handled endpoints
Handled == endpoint \in {"entities", "zero-shot"}

\* the ONNX model object and the Hugging Face model of the endpoint
OnnxObject == IF endpoint = "zero-shot" THEN onnx_zero_shot_model ELSE onnx_ner_model

HuggingFaceObject == IF endpoint = "zero-shot" THEN zero_shot_classifier ELSE ner_pipeline

\* ONNX is the engine to select: the switch is set, the object exists and is ready
OnnxWanted == USE_ONNX /\ OnnxObject \notin {"None", "not ready"}

\* the engine the gate selects is there to be called
SelectedLoaded == OnnxWanted \/ HuggingFaceObject # "None"

\* the step made an invocation
Invokes == Len(calls') = Len(calls) + 1

\* the object behind an engine name is loaded and ready
EngineReady(e) ==
    IF e = "ONNX" THEN OnnxObject = "ready" ELSE HuggingFaceObject = "loaded"

\* C21: ONNX is selected exactly when USE_ONNX is set and the ONNX model
\* object exists and is ready, otherwise the Hugging Face model is; when the
\* selected engine is not loaded the endpoint answers 503 and no model is
\* invoked; every model a handler invokes is loaded and ready; a not-ready
\* ONNX model called directly raises and produces no result
C21_AvailabilityGate ==
    /\ [][ (pc = "start" /\ Handled) =>
             /\ use_onnx' = OnnxWanted
             /\ IF SelectedLoaded
                THEN /\ status' # 503
                     /\ pc' # "done" =>
                            engine' = IF OnnxWanted THEN "ONNX" ELSE "HuggingFace"
                ELSE status' = 503 /\ pc' = "done" /\ calls' = <<>> ]_vars
    /\ []((Handled /\ status = 503) => calls = <<>>)
    /\ []((Handled /\ ~SelectedLoaded) => calls = <<>>)
    /\ [][ Invokes =>
             LET c == calls'[Len(calls')]
             IN  IF Handled THEN EngineReady(c.engine)
                 ELSE EngineReady(c.engine) \/
                        /\ c.raised
                        /\ c.out = <<>>
                        /\ pc' = "raised"
                        /\ predictions' = predictions
                        /\ response' = response ]_vars
    /\ []((~Handled /\ OnnxObject # "ready") => pc \in {"start", "call", "raised"})

\* USE_ONNX is set, the ONNX model failed to load and there is no Hugging
\* Face model: the request was answered 503 and nothing was invoked
C21_Witness ==
    /\ pc = "done"
    /\ Handled
    /\ USE_ONNX
    /\ OnnxObject = "not ready"
    /\ HuggingFaceObject = "None"
    /\ status = 503
    /\ calls = <<>>

\* ---- input validation ----

\* the text has no character other than whitespace
EmptyOrWhitespace(s) == \A k \in 1..Len(s) : s[k] \in {" ", "\n"}

\* the request is one the handlers refuse: no labels for the zero-shot
\* endpoint, or a text that is empty or whitespace only
InvalidInput ==
    \/ endpoint = "zero-shot" /\ candidate_labels = <<>>
    \/ EmptyOrWhitespace(text)

\* C22 as stated: every request with an empty label list or with an empty or
\* whitespace-only text is answered 400 and no model is invoked for it
C22_Answered400 ==
    (Handled /\ InvalidInput /\ pc = "done") => (status = 400 /\ calls = <<>>)

\* C22, amended: no model is invoked for such a request; it is answered 400
\* when the selected engine is loaded and 503 (the availability gate comes
\* first) when it is not
C22_RejectedBeforeScoring ==
    (Handled /\ InvalidInput) =>
        /\ calls = <<>>
        /\ pc \in {"start", "done"}
        /\ pc = "done" => status = IF SelectedLoaded THEN 400 ELSE 503

\* a zero-shot request with a proper text and no labels was answered 400
C22_Witness ==
    /\ pc = "done"
    /\ endpoint = "zero-shot"
    /\ candidate_labels = <<>>
    /\ ~EmptyOrWhitespace(text)
    /\ status = 400
    /\ calls = <<>>

\* ---- the zero-shot scorer ----

\* a direct call of the scorer on a ready model
ScorerCalled == endpoint = "scorer" /\ onnx_zero_shot_model = "ready"

\* the call has returned its result
ScorerReturned == ScorerCalled /\ pc = "returned"

\* the call ended with an exception
ScorerFailed == ScorerCalled /\ pc = "raised"

\* C23: called with an empty label list, with multi_label false as well as
\* true, the scorer raises no error and returns labels == [] and scores == []
C23_EmptyLabelList ==
    (ScorerCalled /\ candidate_labels = <<>>) =>
        /\ ~ScorerFailed
        /\ pc \in {"start", "classify", "labels", "respond", "returned"}
        /\ ScorerReturned => results.labels = <<>> /\ results.scores = <<>>

\* the hypothesis sentence about a label
About(label) == <<"This text is about ", label, ".">>

\* the model has been run once for each of the first n labels, in their order
RunOncePerLabel(n) ==
    /\ Len(model_runs) = n
    /\ \A i \in 1..n :
          /\ model_runs[i].text = request
          /\ model_runs[i].hypothesis = About(candidate_labels[i])

\* the score list holds the scores of the runs made so far, in run order
ScoresInRunOrder(sc) ==
    /\ Len(sc) = Len(model_runs)
    /\ \A i \in 1..Len(sc) : sc[i] = LabelScore(model_runs[i].logits)

\* C24: for every text and non-empty label sequence the scorer runs the
\* model exactly once per label, in input order, and returns the labels in
\* input order, one score per label, scores[i] being the score computed for
\* labels[i], and the input text as sequence
C24_Alignment ==
    (ScorerCalled /\ candidate_labels # <<>>) =>
        /\ ~ScorerFailed
        /\ pc = "labels" => RunOncePerLabel(Len(scores)) /\ ScoresInRunOrder(scores)
        /\ ScorerReturned =>
              /\ RunOncePerLabel(Len(candidate_labels))
              /\ results.labels = candidate_labels
              /\ Len(results.scores) = Len(results.labels)
              /\ ScoresInRunOrder(results.scores)
              /\ results.sequence = request

\* two labels were scored, the second higher than the first, and the result
\* lists them in input order
C24_Witness ==
    /\ ScorerReturned
    /\ candidate_labels = <<"x", "y">>
    /\ Greater(results.scores[2], results.scores[1])
    /\ results.labels = <<"x", "y">>

\* what a call returns as a function of the text, the labels and the logits
\* of the runs alone: neither multi_label nor the selection enters it
ResultOfRuns ==
    [sequence |-> request, labels |-> candidate_labels,
     scores |-> [i \in 1..Len(model_runs) |-> LabelScore(model_runs[i].logits)]]

\* the call is over, with a result or with an exception
ScorerEnded == ScorerReturned \/ ScorerFailed

\* C25: for the same text, labels and logits the scorer returns the same
\* {sequence, labels, scores} for multi_label true and false, whichever
\* labels the decision policy selects
C25_SelectionIndependent ==
    ScorerEnded => (ScorerReturned /\ results = ResultOfRuns)

\* a score between 0 and 1
IsProbability(p) == p.den > 0 /\ 0 <= p.num /\ p.num <= p.den

\* p is the softmax probability of class index 1 of the two logits x (x[1]
\* is class index 0, x[2] is class index 1): the odds p / (1 - p) are
\* exp(x[2] - x[1])
IsEntailmentProbability(p, x) ==
    IF x[2] <= x[1]
    THEN p.num * Exp(0) = (p.den - p.num) * Exp(x[2] - x[1])
    ELSE (p.den - p.num) * Exp(0) = p.num * Exp(x[1] - x[2])

\* the probabilities add up to 1
SumToOne(probs) ==
    LET nums == [i \in 1..Len(probs) |-> probs[i].num]
    IN  /\ \A i \in 1..Len(probs) : probs[i].den = probs[1].den
        /\ Total(nums) = probs[1].den

\* the runs that returned exactly two class logits
BinaryRuns == {i \in 1..Len(scores) : Len(model_runs[i].logits) = 2}

\* C26: when the model returns exactly 2 class logits for a label, the
\* label's score is the softmax probability of class index 1, lies in
\* [0, 1], and the two softmax probabilities sum to 1
C26_BinaryScore ==
    (ScorerCalled /\ pc \in {"labels", "respond", "returned"}) =>
        \A i \in BinaryRuns :
            /\ IsProbability(scores[i])
            /\ IsEntailmentProbability(scores[i], model_runs[i].logits)
            /\ SumToOne(Softmax(model_runs[i].logits))
            /\ ScorerReturned => results.scores[i] = scores[i]

\* a label whose run returned the logits (0, 2) was scored above one half,
\* another whose run returned (2, 0) below
C26_Witness ==
    /\ ScorerReturned
    /\ Len(scores) = 2
    /\ model_runs[1].logits = <<0, 2>>
    /\ model_runs[2].logits = <<2, 0>>
    /\ Greater(scores[1], threshold)
    /\ Greater(threshold, scores[2])

\* ---- the grouped entity index ----

\* the (type, lowercase text) pair of an entity or of a group
KeyOf(e) == <<e.type, Lower(e.entity)>>

\* the pairs occurring among the first n input entities
KeysUpTo(n) == {KeyOf(response[i]) : i \in 1..n}

\* position of the first input entity with the pair
FirstOccurrence(key) ==
    Min({i \in 1..Len(response) : KeyOf(response[i]) = key})

\* the input entities with the pair, in input order
Occurrences(key) ==
    LET Matches(e) == KeyOf(e) = key
    IN  SelectSeq(response, Matches)

\* the groups of every type, as (type, position in the type's list) pairs
GroupsOf(index) ==
    UNION { {<<index.keys[t], j>> : j \in 1..Len(index.val[index.keys[t]])} :
              t \in 1..Len(index.keys) }

GroupAt(index, at) == index.val[at[1]][at[2]]

\* an NER request was answered with its entities and their grouping
Grouped == endpoint = "entities" /\ Answered

\* C27: the index holds exactly one GroupedEntity per distinct (type,
\* lowercase text) pair of the input; within each type the groups are in
\* the order of their first occurrences, each group's text is the text of
\* that first occurrence and each group's mentions are in input order
C27_GroupsUniqueAndOrdered ==
    Grouped =>
        LET all == GroupsOf(grouped)
        IN  /\ \A t, u \in 1..Len(grouped.keys) :
                  grouped.keys[t] = grouped.keys[u] => t = u
            /\ {KeyOf(GroupAt(grouped, at)) : at \in all} = KeysUpTo(Len(response))
            /\ \A at, bt \in all :
                  KeyOf(GroupAt(grouped, at)) = KeyOf(GroupAt(grouped, bt)) => at = bt
            /\ \A at \in all :
                  LET g == GroupAt(grouped, at)
                  IN  /\ g.type = at[1]
                      /\ g.entity = response[FirstOccurrence(KeyOf(g))].entity
                      /\ g.mentions = Occurrences(KeyOf(g))
            /\ \A at, bt \in all :
                  (at[1] = bt[1] /\ at[2] < bt[2]) =>
                      FirstOccurrence(KeyOf(GroupAt(grouped, at)))
                          < FirstOccurrence(KeyOf(GroupAt(grouped, bt)))

\* "A" and "a" of one type, with an entity of another type between them,
\* fell into one group named "A"; "c" of the same type follows in a second
C27_Witness ==
    /\ Grouped
    /\ Len(response) = 4
    /\ response[1].entity = <<"A">> /\ response[3].entity = <<"a">>
    /\ response[1].type = response[3].type
    /\ response[2].type # response[1].type
    /\ response[4].entity = <<"c">> /\ response[4].type = response[1].type
    /\ Len(grouped.val[response[1].type]) = 2
    /\ grouped.val[response[1].type][1].entity = <<"A">>
    /\ grouped.val[response[1].type][1].mentions = <<response[1], response[3]>>
    /\ grouped.val[response[1].type][2].entity = <<"c">>

\* the index as it stands when the first k input entities are processed
IndexAfter(k) ==
    LET empty == [grouped |-> EmptyDict, entity_texts |-> EmptyDict]
    IN  IF engine = Fallback
        THEN FallbackGroupFrom(empty, SubSeq(response, 1, k)).grouped
        ELSE GroupFrom(empty, SubSeq(response, 1, k)).grouped

RECURSIVE CountsOver(_, _)
\* the counts of a set of groups added up
CountsOver(index, S) ==
    IF S = {} THEN 0
    ELSE LET at == CHOOSE x \in S : TRUE
         IN  GroupAt(index, at).count + CountsOver(index, S \ {at})

\* the groups that hold the entity among their mentions
HoldersOf(index, e) ==
    {at \in GroupsOf(index) :
        \E m \in 1..Len(GroupAt(index, at).mentions) :
            GroupAt(index, at).mentions[m] = e}

\* C28: after each Entity is processed every GroupedEntity has count ==
\* len(mentions) >= 1; at the end the counts of all groups add up to the
\* number of input entities and every input entity is among the mentions of
\* exactly one group, whose type and lowercase text are its own
C28_Counting ==
    Grouped =>
        /\ \A k \in 0..Len(response) :
              \A at \in GroupsOf(IndexAfter(k)) :
                  LET g == GroupAt(IndexAfter(k), at)
                  IN  g.count = Len(g.mentions) /\ g.count >= 1
        /\ grouped = IndexAfter(Len(response))
        /\ CountsOver(grouped, GroupsOf(grouped)) = Len(response)
        /\ \A i \in 1..Len(response) :
              /\ Cardinality(HoldersOf(grouped, response[i])) = 1
              /\ \A at \in HoldersOf(grouped, response[i]) :
                    KeyOf(GroupAt(grouped, at)) = KeyOf(response[i])

\* three entities in two groups: one group counts two mentions, the other one
C28_Witness ==
    /\ Grouped
    /\ Len(response) = 3
    /\ Cardinality(GroupsOf(grouped)) = 2
    /\ \E at \in GroupsOf(grouped) :
          GroupAt(grouped, at).count = 2 /\ Len(GroupAt(grouped, at).mentions) = 2

\* C29: built again from the same Entity sequence the index comes out the
\* same (types, groups and their order, counts, mentions); the fallback
\* path's grouping equals the primary path's for the same sequence; nothing
\* of an earlier request's grouping is carried over
C29_Deterministic ==
    /\ [](Grouped =>
            /\ grouped = GroupEntities(response)
            /\ grouped = FallbackGroupEntities(response)
            /\ GroupEntities(response) = IndexAfter(Len(response)))
    /\ [][pc = "convert" =>
            /\ grouped' = GroupEntities(response')
            /\ grouped' = FallbackGroupEntities(response')
            /\ KeysUpTo(Len(response))' =
                   {KeyOf(GroupAt(grouped', at)) : at \in GroupsOf(grouped')} ]_vars

\* a request answered by the fallback path after an earlier request whose
\* decode of three tokens had left an index of two types: the new index has
\* the one group of the new entities
C29_Witness ==
    /\ Grouped
    /\ engine = Fallback
    /\ Len(tokens) = 3
    /\ tokens[1].pred_id # tokens[2].pred_id
    /\ tokens[1].token_id = 2 /\ tokens[3].token_id = 5
    /\ Cardinality(GroupsOf(grouped)) = 1
    /\ Len(response) = 1

\* ---- two requests in flight ----

\* the text the k-th call of the running request was given
TextGiven(k) == IF calls[k].chunk = 0 THEN text ELSE chunks[calls[k].chunk]

\* what the running NER request returns when it runs alone and the model
\* produces the same tokens: the entities of each of its first n decodes,
\* at the chunk's offset, in order
RECURSIVE AloneEntities(_)
AloneEntities(n) ==
    IF n = 0 THEN <<>>
    ELSE AloneEntities(n - 1)
            \o ShiftedBy(AggregateEntities(Decode(calls[n].tokens, TextGiven(n))),
                         IF calls[n].chunk = 0 THEN 0 ELSE SumBefore(calls[n].chunk))

\* the running request has the result it has when it runs alone
SameAsAlone ==
    IF endpoint = "entities"
    THEN /\ ChunksGivenTo("ONNX", Len(calls)) = WholeInput
         /\ response = AsEntities(AloneEntities(Len(calls)))
         /\ grouped = GroupEntities(AsEntities(AloneEntities(Len(calls))))
    ELSE /\ RunOncePerLabel(Len(candidate_labels))
         /\ response = ResultOfRuns

\* the step suspends the running call and resumes the other one
Switches == reqs' = <<Frame>> /\ Frame' = reqs[1]

\* C30: with two NER or zero-shot requests in flight against the same loaded
\* model, in every interleaving of their steps each request returns the
\* result it returns when run alone, and no step of one request writes the
\* open fragment, fragment list, chunk offset, grouping or score list of the
\* other
C30_Isolation ==
    /\ [][reqs' = reqs \/ Switches]_vars
    /\ [][Switches => (Len(reqs') = 1 /\ models' = models)]_vars
    /\ [](Answered => SameAsAlone)
    /\ [](pc = "done" => status = 200)

\* a request for the two-chunk document was answered with its three words
\* while the other request stood in the middle of its decode with a fragment
\* open
C30_Witness ==
    /\ Answered
    /\ endpoint = "entities"
    /\ split
    /\ Len(response) = 2
    /\ reqs[1].pc = "scan"
    /\ reqs[1].idx = 1
    /\ Len(reqs[1].tokens) = 2
    /\ reqs[1].current_entity # <<>>

(***************************************************************************)
(* The singleton getters.                                                  *)
(***************************************************************************)
\* the objects of a class that were constructed
InstancesOf(class) == {i \in DOMAIN instances : instances[i].class = class}

\* the instances a getter has returned so far
ReturnedBy(getter) ==
    {returns[k].instance : k \in {j \in DOMAIN returns : returns[j].getter = getter}}

\* C31: each getter's model is constructed at most once in the process,
\* and every call of a getter, from any thread and with any model_path,
\* returns the instance its first call returned.
C31_SingleInstance ==
    /\ Cardinality(InstancesOf("ONNXNERModel")) <= 1
    /\ Cardinality(InstancesOf("ONNXZeroShotModel")) <= 1
    /\ \A k \in DOMAIN returns :
          \E j \in 1..k :
             /\ returns[j].getter = returns[k].getter
             /\ \A i \in 1..(j - 1) : returns[i].getter # returns[k].getter
             /\ returns[k].instance = returns[j].instance

(***************************************************************************)
(* LlamaClient.                                                            *)
(***************************************************************************)
\* the k-th method call of the client was a call of op
IsCall(k, op) == k \in DOMAIN client_calls /\ client_calls[k].op = op

\* the client was ready when its k-th call began / when it was over
ReadyBefore(k) == client_calls[k].before._ready

ReadyAfter(k) ==
    IF k < Len(client_calls) THEN client_calls[k + 1].before._ready
    ELSE llama_client[1]._ready

\* the calls that generate text
Generates(k) == IsCall(k, "generate") \/ IsCall(k, "generate_streaming")

\* C32: a call of generate, or the first iteration of generate_streaming,
\* on a client that is not ready raises RuntimeError and sends no HTTP
\* request; a client on which no method was called yet is not ready.
C32_ReadinessGate ==
    /\ \A k \in DOMAIN client_calls :
          Generates(k) /\ ~ReadyBefore(k) =>
             /\ client_calls[k].raised = "RuntimeError"
             /\ client_calls[k].sent = <<>>
             /\ ~ReadyAfter(k)
    /\ (llama_client # <<>> /\ client_calls = <<>>) => ~llama_client[1]._ready

\* generate was refused on a client whose connection test had failed
C32_Witness ==
    /\ IsCall(1, "test_connection")
    /\ client_calls[1].raised = "ConnectionError"
    /\ IsCall(2, "generate")
    /\ ~ReadyBefore(2)
    /\ client_calls[2].raised = "RuntimeError"
    /\ http = client_calls[1].sent

\* the request raised an exception / was answered with a status other than 200
Excepted(req) == req.answer.kind # "response"

Refused(req) == req.answer.kind = "response" /\ req.answer.status # 200

\* the requests by which the k-th call tested the connection: the GET of
\* the root URL and the GET of the model list
ConnectionRequests(k) ==
    {client_calls[k].sent[i] :
        i \in {j \in DOMAIN client_calls[k].sent :
                  client_calls[k].sent[j].method = "GET"}}

\* C33: a test_connection call whose request to the server (root URL or
\* model list) raises an exception or is answered with a status other
\* than 200 raises ConnectionError and leaves the readiness of the client
\* as it was.
C33_ConnectionFailure ==
    \A k \in DOMAIN client_calls :
       (/\ IsCall(k, "test_connection")
        /\ \E req \in ConnectionRequests(k) : Excepted(req) \/ Refused(req))
       => /\ client_calls[k].raised = "ConnectionError"
          /\ ReadyAfter(k) = ReadyBefore(k)

\* the requests of the k-th call to the given path of the API
RequestsTo(k, path) ==
    {client_calls[k].sent[i] :
        i \in {j \in DOMAIN client_calls[k].sent :
                  client_calls[k].sent[j].url
                     = client_calls[k].before.api_base \o <<path>>}}

\* the answer lists the client's model
Lists(req, name) ==
    /\ req.answer.kind = "response"
    /\ req.answer.status = 200
    /\ "models" \in DOMAIN req.answer.body
    /\ \E i \in DOMAIN req.answer.body.models :
          req.answer.body.models[i].name = name

\* the k-th call found the model in the list / pulled it with a 200 answer
FoundListed(k) ==
    \E req \in RequestsTo(k, "/tags") : Lists(req, client_calls[k].before.model_name)

Pulled(k) ==
    \E req \in RequestsTo(k, "/pull") :
       req.answer.kind = "response" /\ req.answer.status = 200

\* the k-th call sent a pull that the server refused or whose request
\* raised a requests exception
PullFailed(k) ==
    \E req \in RequestsTo(k, "/pull") :
       Refused(req) \/ req.answer.kind = "RequestException"

\* C34: the client becomes ready only in a test_connection call that finds
\* its model listed or pulls it with a 200 answer, and that call returns
\* True; a call whose pull is refused or fails with a requests exception
\* raises ValueError and does not make the client ready; a client that is
\* ready stays ready whatever is called on it.
C34_ReadinessProtocol ==
    \A k \in DOMAIN client_calls :
       /\ (~ReadyBefore(k) /\ ReadyAfter(k)) =>
             /\ IsCall(k, "test_connection")
             /\ FoundListed(k) \/ Pulled(k)
             /\ client_calls[k].raised = "none"
             /\ client_calls[k].returned = "True"
       /\ PullFailed(k) =>
             /\ client_calls[k].raised = "ValueError"
             /\ ReadyAfter(k) = ReadyBefore(k)
       /\ RequestsTo(k, "/pull") # {} /\ ~Pulled(k) =>
             ReadyAfter(k) = ReadyBefore(k)
       /\ ReadyBefore(k) => ReadyAfter(k)

\* a pull failed and left the client not ready; the next connection test
\* pulled the model and made it ready
C34_Witness ==
    /\ IsCall(1, "test_connection")
    /\ PullFailed(1)
    /\ client_calls[1].raised = "ValueError"
    /\ ~ReadyAfter(1)
    /\ IsCall(2, "test_connection")
    /\ Pulled(2) /\ ~FoundListed(2)
    /\ client_calls[2].returned = "True"
    /\ llama_client[1]._ready

\* the text the answer to a generation request holds
ResponseField(answer) ==
    IF "response" \in DOMAIN answer.body THEN answer.body.response ELSE ""

\* C35: a call of generate on a ready client sends exactly one request, a
\* POST to <host>/api/generate; when the answer has status 200 the call
\* returns its "response" field, or the empty string when it has none;
\* when the answer has another status or the request raises a requests
\* exception the call raises RuntimeError and returns nothing; in both
\* cases the client is still ready.
C35_GenerationOutcome ==
    \A k \in DOMAIN client_calls :
       IsCall(k, "generate") /\ ReadyBefore(k) =>
          LET call == client_calls[k]
              req == call.sent[1]
          IN  /\ Len(call.sent) = 1
              /\ req.method = "POST"
              /\ req.url = call.before.host \o <<"/api", "/generate">>
              /\ req.json.prompt = call.args[1]
              /\ (req.answer.kind = "response" /\ req.answer.status = 200) =>
                    /\ call.raised = "none"
                    /\ call.returned = ResponseField(req.answer)
              /\ (Refused(req) \/ req.answer.kind = "RequestException") =>
                    /\ call.raised = "RuntimeError"
                    /\ call.returned = "nothing"
              /\ ReadyAfter(k)

\* a ready client generated from an answer without a "response" field
C35_Witness ==
    /\ IsCall(2, "generate")
    /\ ReadyBefore(2)
    /\ client_calls[2].sent[1].answer.kind = "response"
    /\ client_calls[2].sent[1].answer.status = 200
    /\ "response" \notin DOMAIN client_calls[2].sent[1].answer.body
    /\ client_calls[2].returned = ""
    /\ llama_client[1]._ready

(***************************************************************************)
(* ResultCache.                                                            *)
(***************************************************************************)
\* the keys a dict holds
KeysOf(d) == {d.keys[i] : i \in DOMAIN d.keys}

\* the latest call of the cache was a call of op
LastCall(op) == cache_call.op = op

\* the key under which the latest call looked or stored
CallKey == GenerateKey(cache_call.prompt, cache_call.kwargs)

\* the entries of the dict that hold the smallest timestamp
Oldest(d) ==
    {k \in KeysOf(d) : \A other \in KeysOf(d) :
                          d.val[k].timestamp <= d.val[other].timestamp}

\* every key of S holds in the cache what it held before the latest call
Kept(S) == \A k \in S : k \in KeysOf(cache.cache)
                         /\ cache.cache.val[k] = cache_call.before.val[k]

\* C36: a cache with max_size >= 1 never holds more than max_size entries;
\* a set on a cache that holds max_size entries removes exactly one of
\* them, one with the smallest timestamp, and then inserts; a set on a
\* cache that holds fewer entries removes none.
C36_SizeBound ==
    /\ cache.max_size >= 1 => Len(cache.cache.keys) <= cache.max_size
    /\ Cardinality(KeysOf(cache.cache)) = Len(cache.cache.keys)
    /\ LastCall("set") =>
          LET before == cache_call.before
          IN  /\ CallKey \in KeysOf(cache.cache)
              /\ cache.cache.val[CallKey] =
                    [result |-> cache_call.result, timestamp |-> cache_call.at]
              /\ IF Len(before.keys) >= cache.max_size
                 THEN \E victim \in Oldest(before) :
                         /\ KeysOf(cache.cache)
                               = (KeysOf(before) \ {victim}) \cup {CallKey}
                         /\ Kept(KeysOf(before) \ {victim, CallKey})
                 ELSE /\ KeysOf(cache.cache) = KeysOf(before) \cup {CallKey}
                      /\ Kept(KeysOf(before) \ {CallKey})

\* a set of a new key on a full cache of two entries evicted the older one
C36_Witness ==
    /\ LastCall("set")
    /\ cache.max_size = 2
    /\ Len(cache_call.before.keys) = 2
    /\ CallKey \notin KeysOf(cache_call.before)
    /\ Cardinality(Oldest(cache_call.before)) = 1
    /\ Oldest(cache_call.before) \cap KeysOf(cache.cache) = {}
    /\ Len(cache.cache.keys) = 2

\* the age, at the latest call, of the entry the dict held under a key
Age(d, k) == cache_call.at - d.val[k].timestamp

\* the entries that were older than ttl at the latest call
Expired(d) == {k \in KeysOf(d) : Age(d, k) > cache.ttl}

\* different prompts or keyword parameters never share a key
KeysApart ==
    \A a1 \in CacheArgs, a2 \in CacheArgs :
       GenerateKey(a1.prompt, a1.kwargs) = GenerateKey(a2.prompt, a2.kwargs)
          => a1 = a2

\* C37: get returns a result only when the cache holds, under the prompt
\* and keyword parameters of the call, an entry not older than ttl, and
\* then that entry's result; an entry older than ttl is not returned: the
\* get that finds it deletes it and returns None; prune_expired removes
\* exactly the entries older than ttl, returns how many they were and
\* leaves every other entry as it was.
C37_Expiry ==
    LET before == cache_call.before
    IN  /\ KeysApart
        /\ LastCall("get") =>
              /\ cache_call.returned # <<>> =>
                    /\ CallKey \in KeysOf(before)
                    /\ Age(before, CallKey) <= cache.ttl
                    /\ cache_call.returned = <<before.val[CallKey].result>>
                    /\ cache.cache = before
              /\ CallKey \in Expired(before) =>
                    /\ cache_call.returned = <<>>
                    /\ KeysOf(cache.cache) = KeysOf(before) \ {CallKey}
                    /\ Kept(KeysOf(before) \ {CallKey})
              /\ CallKey \notin KeysOf(before) =>
                    /\ cache_call.returned = <<>>
                    /\ cache.cache = before
        /\ LastCall("prune_expired") =>
              /\ KeysOf(cache.cache) = KeysOf(before) \ Expired(before)
              /\ Kept(KeysOf(before) \ Expired(before))
              /\ cache_call.returned = <<Cardinality(Expired(before))>>

\* a get found an entry older than ttl beside a fresh one, deleted it and
\* returned None
C37_Witness ==
    /\ LastCall("get")
    /\ CallKey \in Expired(cache_call.before)
    /\ KeysOf(cache_call.before) \ Expired(cache_call.before) # {}
    /\ cache_call.returned = <<>>
    /\ Len(cache.cache.keys) = 1

(***************************************************************************)
(* The decoder's fragments, counted.                                       *)
(***************************************************************************)
\* the non-skipped tokens tagged B-* among the first n tokens, in order
BeginTokens(n) ==
    SelectSeq(SubSeq(tokens, 1, n), LAMBDA t : Counted(t) /\ HasPrefix(t, "B"))

\* the fragments opened so far, in the order opened: the emitted ones,
\* then the open one
Opened == entities \o current_entity

\* the fragment was opened by the token: its type is the token's and its
\* word begins with the token's surface text
OpenedBy(fragment, tok) ==
    /\ fragment.entity_group = TypeOf(tok)
    /\ Len(fragment.word) >= Len(Surface(tok))
    /\ SubSeq(fragment.word, 1, Len(Surface(tok))) = Surface(tok)

\* the fragments are those the begin tokens opened, one each, in order
OnePerBegin(fragments, begins) ==
    /\ Len(fragments) = Len(begins)
    /\ \A i \in DOMAIN fragments : OpenedBy(fragments[i], begins[i])

\* C38: the decoder emits, before aggregation, as many fragments as there
\* are non-skipped tokens tagged B-*, the i-th fragment has the type of
\* the i-th such token, and each fragment opened is emitted once, in the
\* order opened: while scanning, a step emits nothing or the open
\* fragment, and the emitted fragments stay in the list.
C38_FragmentAccounting ==
    /\ [](pc = "scan" => OnePerBegin(Opened, BeginTokens(idx)))
    /\ [](pc = "returned" =>
             /\ OnePerBegin(entities, BeginTokens(Len(tokens)))
             /\ aggregator_runs[Len(aggregator_runs)] = entities)
    /\ [][ pc = "scan" =>
             \/ entities' = entities /\ (pc' = "scan" => Len(current_entity') >= Len(current_entity))
             \/ IsOpen /\ entities' = Append(entities, current_entity[1]) ]_vars

\* B-<T>, B-<U> with T # U has been decoded into a T and a U fragment
C38_Witness ==
    /\ pc = "returned"
    /\ Len(tokens) = 2
    /\ Len(BeginTokens(2)) = 2
    /\ TypeOf(tokens[1]) # TypeOf(tokens[2])
    /\ Len(entities) = 2
    /\ entities[1].entity_group = TypeOf(tokens[1])
    /\ entities[2].entity_group = TypeOf(tokens[2])
    /\ aggregator_runs = <<entities>>

(***************************************************************************)
(* The /generate endpoint and its cache.                                   *)
(***************************************************************************)
\* the fields of a request that decide what is generated
SameRequest(r1, r2) ==
    /\ r1.prompt = r2.prompt
    /\ r1.system_prompt = r2.system_prompt
    /\ r1.max_tokens = r2.max_tokens
    /\ r1.temperature = r2.temperature

\* the k-th request was answered from the cache / by a generation
FromCache(k) == gen_calls[k].cached # <<>>

Produced(k) == gen_calls[k].status = 200 /\ ~FromCache(k)

\* C39: /generate answers from the cache, without calling the client, only
\* with a response that an earlier request with the same prompt,
\* system_prompt, max_tokens and temperature produced; a request never
\* receives the cached response of a request that differs from it in one
\* of these fields.
C39_IdenticalRequestsOnly ==
    \A k \in DOMAIN gen_calls :
       FromCache(k) =>
          /\ gen_calls[k].sent = <<>>
          /\ \E j \in 1..(k - 1) :
                /\ Produced(j)
                /\ gen_calls[j].response = gen_calls[k].response
                /\ SameRequest(gen_calls[j].request, gen_calls[k].request)
          /\ \A j \in 1..(k - 1) :
                (Produced(j) /\ gen_calls[j].response = gen_calls[k].response)
                   => SameRequest(gen_calls[j].request, gen_calls[k].request)

====
